---- MODULE Spec2Model ----
(***************************************************************************)
(* Orphaned-branch detection of gh-sweep (package internal/orphans).       *)
(*                                                                         *)
(*   - Detector.ClassifyBranch / Detector.shouldExclude: the pure branch   *)
(*     classifier, checked under SpecClassify (inputs drawn in             *)
(*     InitClassify, applied by the action Classify).                      *)
(*   - NamespaceScanner.ScanNamespaceWithProgress / ScanRepo: the bounded  *)
(*     fan-out / fan-in scan, checked under Spec (safety) and FairSpec     *)
(*     (termination).                                                      *)
(*                                                                         *)
(* Strings that are matched against glob patterns (branch names, exclude   *)
(* patterns, pull-request head refs) are sequences of one-character       *)
(* strings, so that filepath.Match can be computed character by character. *)
(***************************************************************************)
EXTENDS Integers, Sequences, FiniteSets, TLC

VARIABLES
    \* ---- classifier harness (SpecClassify) ----
    cOptions,    \* the Detector's ScanOptions
    cRepo,       \* the github.Repository argument
    cBranch,     \* the github.Branch argument
    cPRs,        \* the []github.PullRequest argument
    cOut,        \* what ClassifyBranch returned (NotCalled before the call)
    \* ---- namespace scan (Spec) ----
    options,     \* NamespaceScanner.options
    progressOn,  \* progressCh != nil
    cancelled,   \* ctx.Done() is closed
    mainPc,      \* position of the goroutine running ScanNamespaceWithProgress
    repos,       \* what ListNamespaceRepositories returned
    nonArchived, \* nonArchivedRepos (indices into repos, in order)
    result,      \* the *NamespaceScanResult under construction (NilResult: nil)
    retErr,      \* the returned error is non-nil
    spawned,     \* number of worker goroutines started so far
    wpc,         \* per worker: its position
    wres,        \* per worker: the ScanResult it is building (ScanRepo's result)
    wbranches,   \* per worker: the branches ListBranches returned
    wprs,        \* per worker: the pull requests ListPullRequests returned
    wnext,       \* per worker: index of the next branch of the range loop
    semaphore,   \* number of tokens in the semaphore channel
    wg,          \* the WaitGroup counter
    closerPc,    \* position of the goroutine that waits and closes resultsCh
    resultsCh,   \* buffered content of resultsCh (FIFO)
    chClosed,    \* resultsCh is closed
    scannedCount,    \* progress counter, guarded by progressMu
    totalOrphans,    \* progress counter, guarded by progressMu
    wprogress,   \* per worker: the ScanProgress snapshot it built
    delivered,   \* the snapshot the progress sink received last (NoProgress: none)
    \* ---- history (not program state) ----
    handed,      \* every ScanResult sent on resultsCh, in order
    calls,       \* collaborator calls made so far, per goroutine (0: the caller)
    nsCalls,     \* the listing calls ListNamespaceRepositories made, in order
    \* ---- runCleanup of the orphans command (SpecCleanup) ----
    kResult,     \* the *NamespaceScanResult argument
    kDryRun,     \* the dryRun argument
    kPc,         \* position in runCleanup
    kAll,        \* allOrphans
    kNext,       \* index of the next orphan of the range loop
    kDeleted,    \* deleted
    kFailed,     \* failed
    kOut,        \* the lines printed so far
    kLog,        \* history: the DeleteBranch calls made, in order
    \* ---- cache.MemoryManager (SpecCache) ----
    mTtl,        \* MemoryManager.ttl
    mData,       \* MemoryManager.data (NoEntry: key absent)
    mNow,        \* what time.Now() returns
    mOut,        \* what the last call returned
    mSetAt,      \* history: per key, when and to what it was last set (<<>>: not since Delete / Clear)
    mSwept,      \* history: per key, CleanExpired ran while the last set value was expired
    \* ---- the interactive orphans view, tui/components/orphans (SpecReview) ----
    tResult,         \* Model.result (NilResult: nil)
    tViewMode,       \* Model.viewMode
    tCursor,         \* Model.cursor
    tSelected,       \* Model.selected: the keys mapped to true
    tFilterType,     \* Model.filterType (NoFilter: nil)
    tConfirmDelete,  \* Model.confirmDelete
    tDeleteTargets,  \* Model.deleteTargets
    tQuit,           \* Update has returned tea.Quit
    tScans,          \* startScan commands that have not delivered their message
    tCmds,           \* delete commands that have not delivered their message
    tIssued          \* history: every delete command executeDelete returned

cvars == <<cOptions, cRepo, cBranch, cPRs, cOut>>
svars == <<options, progressOn, cancelled, mainPc, repos, nonArchived, result,
           retErr, spawned, wpc, wres, wbranches, wprs, wnext, semaphore, wg,
           closerPc, resultsCh, chClosed, scannedCount, totalOrphans,
           wprogress, delivered, handed, calls, nsCalls>>
kvars == <<kResult, kDryRun, kPc, kAll, kNext, kDeleted, kFailed, kOut, kLog>>
mvars == <<mTtl, mData, mNow, mOut, mSetAt, mSwept>>
tvars == <<tResult, tViewMode, tCursor, tSelected, tFilterType, tConfirmDelete,
           tDeleteTargets, tQuit, tScans, tCmds, tIssued>>
vars == <<cvars, svars, kvars, mvars, tvars>>

(***************************************************************************)
(* Bounds                                                                  *)
(***************************************************************************)
MaxPatterns == 2      \* longest ExcludePatterns list drawn for the classifier
MaxPRs == 2           \* longest pull-request list drawn for the classifier
MaxRepos == 2         \* most non-archived repositories of a namespace listing
MaxConcurrency == 2   \* largest options.Concurrency
MaxDeleteFailures == 1   \* most failed deletions of one review session
MaxCleanupOrphans == 2   \* most orphans of one repository handed to runCleanup
MaxTtl == 1           \* largest TTL of a MemoryManager, in clock ticks
MaxClock == 3         \* last clock tick of a MemoryManager's life
MaxIssued == 2        \* most delete commands of one session of the orphans view
MaxRescans == 1       \* most rescans ('r') of one session of the orphans view

(***************************************************************************)
(* Small helpers                                                           *)
(***************************************************************************)
SeqsUpTo(S, n) == UNION {[1..k -> S] : k \in 0..n}

DistinctSeqsUpTo(S, n) ==
    {q \in SeqsUpTo(S, n) : \A i, j \in 1..Len(q) : q[i] = q[j] => i = j}

(***************************************************************************)
(* filepath.Match for patterns made of literals, '*' and '?': '*' matches  *)
(* any run of non-separator characters, '?' one non-separator character.   *)
(* Such patterns are never malformed, so err is always nil.                *)
(***************************************************************************)
RECURSIVE Match(_, _)
Match(pattern, name) ==
    IF pattern = <<>> THEN name = <<>>
    ELSE IF Head(pattern) = "*"
         THEN \/ Match(Tail(pattern), name)
              \/ /\ name # <<>>
                 /\ Head(name) # "/"
                 /\ Match(pattern, Tail(name))
    ELSE IF Head(pattern) = "?"
         THEN /\ name # <<>>
              /\ Head(name) # "/"
              /\ Match(Tail(pattern), Tail(name))
    ELSE /\ name # <<>>
         /\ Head(name) = Head(pattern)
         /\ Match(Tail(pattern), Tail(name))

\* A plausible slip: only the exact comparison, the glob match forgotten.
shouldExcludeExactOnly(opts, branchName) ==
    \E i \in 1..Len(opts.ExcludePatterns) : opts.ExcludePatterns[i] = branchName

\* Detector.shouldExclude
shouldExclude(opts, branchName) ==
    \E i \in 1..Len(opts.ExcludePatterns) :
        \/ Match(opts.ExcludePatterns[i], branchName)
        \/ opts.ExcludePatterns[i] = branchName

(***************************************************************************)
(* The classifier                                                          *)
(***************************************************************************)
NoPR == <<>>          \* a nil *github.PullRequest / nil *int

\* int(time.Since(LastCommitDate).Hours() / 24): Go's conversion truncates
\* toward zero. AgeHours is the elapsed time in hours at the call.
DaysSince(ageHours) ==
    IF ageHours >= 0 THEN ageHours \div 24 ELSE -((-ageHours) \div 24)

\* A plausible slip: a bucket that already has a candidate keeps it.
RECURSIVE ScanPRsFirstWins(_, _, _, _)
ScanPRsFirstWins(prs, branchName, i, cand) ==
    IF i > Len(prs) THEN cand
    ELSE LET pr == prs[i]
             next ==
                 IF pr.HeadRef = branchName
                 THEN IF pr.MergedAt # NoPR
                      THEN (IF cand.merged = NoPR
                            THEN [cand EXCEPT !.merged = <<pr>>] ELSE cand)
                      ELSE IF pr.State = "closed"
                      THEN (IF cand.closed = NoPR
                            THEN [cand EXCEPT !.closed = <<pr>>] ELSE cand)
                      ELSE IF pr.State = "open"
                      THEN [cand EXCEPT !.open = <<pr>>]
                      ELSE cand
                 ELSE cand
         IN ScanPRsFirstWins(prs, branchName, i + 1, next)

\* A plausible slip: a pull request counts only when its head is a branch of
\* the repository it is opened against.
RECURSIVE ScanPRsOwnRepoOnly(_, _, _, _)
ScanPRsOwnRepoOnly(prs, branchName, i, cand) ==
    IF i > Len(prs) THEN cand
    ELSE LET pr == prs[i]
             next ==
                 IF pr.HeadRef = branchName /\ pr.HeadRepo = pr.BaseRepo
                 THEN IF pr.MergedAt # NoPR
                      THEN [cand EXCEPT !.merged = <<pr>>]
                      ELSE IF pr.State = "closed"
                      THEN [cand EXCEPT !.closed = <<pr>>]
                      ELSE IF pr.State = "open"
                      THEN [cand EXCEPT !.open = <<pr>>]
                      ELSE cand
                 ELSE cand
         IN ScanPRsOwnRepoOnly(prs, branchName, i + 1, next)

\* The range loop over prs (lines 523-535): cand = [merged, closed, open],
\* each NoPR or <<pr>>; a later match of a bucket overwrites an earlier one.
RECURSIVE ScanPRs(_, _, _, _)
ScanPRs(prs, branchName, i, cand) ==
    IF i > Len(prs) THEN cand
    ELSE LET pr == prs[i]
             next ==
                 IF pr.HeadRef = branchName
                 THEN IF pr.MergedAt # NoPR
                      THEN [cand EXCEPT !.merged = <<pr>>]
                      ELSE IF pr.State = "closed"
                      THEN [cand EXCEPT !.closed = <<pr>>]
                      ELSE IF pr.State = "open"
                      THEN [cand EXCEPT !.open = <<pr>>]
                      ELSE cand
                 ELSE cand
         IN ScanPRs(prs, branchName, i + 1, next)

NilOrphan == [Type |-> "nil"]     \* ClassifyBranch returned nil

\* A plausible slip: the title of the pull request not copied.
OrphanNumberOnly(repo, branch, type, pr) ==
    [Repository        |-> repo.FullName,
     BranchName        |-> branch.Name,
     SHA               |-> branch.SHA,
     AgeHours          |-> branch.AgeHours,
     Type              |-> type,
     PRNumber          |-> IF pr = NoPR THEN NoPR ELSE <<pr[1].Number>>,
     PRTitle           |-> NoPR,
     DaysSinceActivity |-> DaysSince(branch.AgeHours),
     Protected         |-> branch.Protected]

\* The OrphanedBranch of lines 541-548 with the Type and, for the
\* pull-request categories, the PRNumber and PRTitle of lines 551-570.
Orphan(repo, branch, type, pr) ==
    [Repository        |-> repo.FullName,
     BranchName        |-> branch.Name,
     SHA               |-> branch.SHA,
     AgeHours          |-> branch.AgeHours,
     Type              |-> type,
     PRNumber          |-> IF pr = NoPR THEN NoPR ELSE <<pr[1].Number>>,
     PRTitle           |-> IF pr = NoPR THEN NoPR ELSE <<pr[1].Title>>,
     DaysSinceActivity |-> DaysSince(branch.AgeHours),
     Protected         |-> branch.Protected]

\* A plausible slip: the open pull request is consulted after the merged and
\* closed ones.
CategorizeOpenLast(opts, repo, branch, cand) ==
    IF cand.merged # NoPR
    THEN Orphan(repo, branch, "merged_pr", cand.merged)
    ELSE IF cand.closed # NoPR
         THEN Orphan(repo, branch, "closed_pr", cand.closed)
    ELSE IF cand.open # NoPR THEN NilOrphan
    ELSE IF DaysSince(branch.AgeHours) >= opts.StaleDaysThreshold
         THEN Orphan(repo, branch, "stale", NoPR)
    ELSE IF opts.IncludeRecentNoPR
         THEN Orphan(repo, branch, "recent_no_pr", NoPR)
    ELSE NilOrphan

\* A plausible slip: the closed case of the switch placed before the merged
\* one.
CategorizeClosedFirst(opts, repo, branch, cand) ==
    IF cand.open # NoPR THEN NilOrphan
    ELSE IF cand.closed # NoPR
         THEN Orphan(repo, branch, "closed_pr", cand.closed)
    ELSE IF cand.merged # NoPR
         THEN Orphan(repo, branch, "merged_pr", cand.merged)
    ELSE IF DaysSince(branch.AgeHours) >= opts.StaleDaysThreshold
         THEN Orphan(repo, branch, "stale", NoPR)
    ELSE IF opts.IncludeRecentNoPR
         THEN Orphan(repo, branch, "recent_no_pr", NoPR)
    ELSE NilOrphan

\* A plausible slip: the staleness test placed in front of the pull-request
\* cases, so that a recent branch with a finished pull request falls through.
CategorizeStaleGated(opts, repo, branch, cand) ==
    IF cand.open # NoPR THEN NilOrphan
    ELSE IF DaysSince(branch.AgeHours) < opts.StaleDaysThreshold
         THEN (IF opts.IncludeRecentNoPR
               THEN Orphan(repo, branch, "recent_no_pr", NoPR)
               ELSE NilOrphan)
    ELSE IF cand.merged # NoPR
         THEN Orphan(repo, branch, "merged_pr", cand.merged)
    ELSE IF cand.closed # NoPR
         THEN Orphan(repo, branch, "closed_pr", cand.closed)
    ELSE Orphan(repo, branch, "stale", NoPR)

\* A plausible slip: the threshold compared with > instead of >=.
CategorizeStrictStale(opts, repo, branch, cand) ==
    IF cand.open # NoPR THEN NilOrphan
    ELSE IF cand.merged # NoPR
         THEN Orphan(repo, branch, "merged_pr", cand.merged)
    ELSE IF cand.closed # NoPR
         THEN Orphan(repo, branch, "closed_pr", cand.closed)
    ELSE IF DaysSince(branch.AgeHours) > opts.StaleDaysThreshold
         THEN Orphan(repo, branch, "stale", NoPR)
    ELSE IF opts.IncludeRecentNoPR
         THEN Orphan(repo, branch, "recent_no_pr", NoPR)
    ELSE NilOrphan

\* A plausible slip: IncludeRecentNoPR not consulted.
CategorizeAlwaysRecent(opts, repo, branch, cand) ==
    IF cand.open # NoPR THEN NilOrphan
    ELSE IF cand.merged # NoPR
         THEN Orphan(repo, branch, "merged_pr", cand.merged)
    ELSE IF cand.closed # NoPR
         THEN Orphan(repo, branch, "closed_pr", cand.closed)
    ELSE IF DaysSince(branch.AgeHours) >= opts.StaleDaysThreshold
         THEN Orphan(repo, branch, "stale", NoPR)
    ELSE Orphan(repo, branch, "recent_no_pr", NoPR)

\* The open-PR veto and the category switch of lines 537-572, after
\* exclusion and protection.
Categorize(opts, repo, branch, cand) ==
    IF cand.open # NoPR THEN NilOrphan
    ELSE IF cand.merged # NoPR
         THEN Orphan(repo, branch, "merged_pr", cand.merged)
    ELSE IF cand.closed # NoPR
         THEN Orphan(repo, branch, "closed_pr", cand.closed)
    ELSE IF DaysSince(branch.AgeHours) >= opts.StaleDaysThreshold
         THEN Orphan(repo, branch, "stale", NoPR)
    ELSE IF opts.IncludeRecentNoPR
         THEN Orphan(repo, branch, "recent_no_pr", NoPR)
    ELSE NilOrphan

NoCand == [merged |-> NoPR, closed |-> NoPR, open |-> NoPR]

\* A plausible slip: the protection check left out.
ClassifyBranchNoProtection(opts, repo, branch, prs) ==
    IF shouldExclude(opts, branch.Name) THEN NilOrphan
    ELSE Categorize(opts, repo, branch, ScanPRs(prs, branch.Name, 1, NoCand))

\* A plausible slip: the classifier itself passing over the default branch.
ClassifyBranchSkipsDefault(opts, repo, branch, prs) ==
    IF branch.Name = repo.DefaultBranch THEN NilOrphan
    ELSE IF shouldExclude(opts, branch.Name) THEN NilOrphan
    ELSE IF branch.Protected /\ ~opts.IncludeProtected THEN NilOrphan
    ELSE Categorize(opts, repo, branch, ScanPRs(prs, branch.Name, 1, NoCand))

\* Detector.ClassifyBranch
ClassifyBranch(opts, repo, branch, prs) ==
    IF shouldExclude(opts, branch.Name) THEN NilOrphan
    ELSE IF branch.Protected /\ ~opts.IncludeProtected THEN NilOrphan
    ELSE Categorize(opts, repo, branch, ScanPRs(prs, branch.Name, 1, NoCand))


(***************************************************************************)
(* Classifier harness: SpecClassify                                        *)
(***************************************************************************)
\* Branch names, exclude patterns and head refs, as character sequences.
nA == <<"a">>
nAA == <<"a", "a">>
nRA == <<"r", "/", "a">>
nRAB == <<"r", "/", "a", "/", "b">>
pStar == <<"*">>
pRStar == <<"r", "/", "*">>
pRAny == <<"r", "/", "?">>

ClassifyNames == {nA, nAA, nRA, nRAB}
ClassifyPatterns == {nA, pStar, pRStar, pRAny}
\* Elapsed hours since the last commit, around the day boundaries that the
\* thresholds below make interesting; a negative age is a last commit dated
\* after the evaluation time (clock skew, a hand-set author date).
ClassifyAges == {-30, 23, 24, 168}
ClassifyThresholds == {1, 7}

\* The repository argument: one whose default branch is among the branch
\* names drawn, the same with another default branch, and one that differs in
\* everything.
ClassifyRepo ==
    [Owner |-> "acme", Name |-> "widgets", FullName |-> "acme/widgets",
     DefaultBranch |-> nA, Archived |-> FALSE]

ClassifyRepos ==
    {ClassifyRepo,
     [ClassifyRepo EXCEPT !.DefaultBranch = nRA],
     [Owner |-> "eve", Name |-> "gadgets", FullName |-> "eve/gadgets",
      DefaultBranch |-> nAA, Archived |-> TRUE]}

\* Pull requests as the GitHub API returns them: an open pull request has no
\* merged-at timestamp; a merged one is closed. Number, Title and the
\* timestamps are given by the position in the list, so that equal-looking
\* entries stay distinguishable: the API lists the newest pull request
\* first, so numbers and times fall along the list. The head of a pull
\* request is a branch of the repository itself or of a fork of it; the base
\* is in the repository listed.
PRShapes ==
    {[HeadRef |-> nA, State |-> "open", MergedAt |-> NoPR, HeadRepo |-> "acme/widgets"],
     [HeadRef |-> nA, State |-> "closed", MergedAt |-> NoPR, HeadRepo |-> "acme/widgets"],
     [HeadRef |-> nA, State |-> "closed", MergedAt |-> <<"t">>, HeadRepo |-> "acme/widgets"],
     [HeadRef |-> nRA, State |-> "closed", MergedAt |-> <<"t">>, HeadRepo |-> "acme/widgets"],
     [HeadRef |-> nA, State |-> "closed", MergedAt |-> <<"t">>, HeadRepo |-> "mallory/widgets"]}

MkPRs(shapes) ==
    [i \in 1..Len(shapes) |->
        [Number |-> 50 - i, Title |-> i, State |-> shapes[i].State,
         HeadRef |-> shapes[i].HeadRef,
         HeadSHA |-> "sha",
         HeadRepo |-> shapes[i].HeadRepo,
         BaseRef |-> nAA,
         BaseSHA |-> "base",
         BaseRepo |-> "acme/widgets",
         MergedAt |-> IF shapes[i].MergedAt = NoPR THEN NoPR ELSE <<20 - i>>,
         ClosedAt |-> IF shapes[i].State = "closed" THEN <<20 - i>> ELSE NoPR]]

ClassifyOptionsSet ==
    [StaleDaysThreshold : ClassifyThresholds,
     IncludeRecentNoPR  : BOOLEAN,
     ExcludePatterns    : DistinctSeqsUpTo(ClassifyPatterns, MaxPatterns),
     IncludeProtected   : BOOLEAN,
     Concurrency        : {5}]

ClassifyBranches ==
    [Name : ClassifyNames, SHA : {"sha"}, Protected : BOOLEAN, AgeHours : ClassifyAges]

NotCalled == [Type |-> "not_called"]


(***************************************************************************)
(* Namespace scan: the collaborator's data                                 *)
(***************************************************************************)
nMain == <<"m", "a", "i", "n">>
nTrunk == <<"t", "r", "u", "n", "k">>
nFeat == <<"f", "e", "a", "t">>
nOld == <<"o", "l", "d">>
nWip == <<"w", "i", "p">>
nRel == <<"r", "e", "l", "e", "a", "s", "e", "/", "1">>
nFix == <<"f", "i", "x">>

\* DefaultScanOptions, Concurrency left to the caller
ScanOptionsWith(c) ==
    [StaleDaysThreshold |-> 7,
     IncludeRecentNoPR  |-> FALSE,
     ExcludePatterns    |-> << nMain,
                               <<"m", "a", "s", "t", "e", "r">>,
                               <<"d", "e", "v", "e", "l", "o", "p">>,
                               <<"r", "e", "l", "e", "a", "s", "e", "/", "*">>,
                               <<"h", "o", "t", "f", "i", "x", "/", "*">> >>,
     IncludeProtected   |-> FALSE,
     Concurrency        |-> c]

\* The three kinds of repository the collaborator serves; the i-th repository
\* of a listing is of kind ((i - 1) % 3) + 1.
Kind(i) == ((i - 1) % 3) + 1

Repository(i, archived) ==
    [FullName      |-> <<"acme", i>>,
     Archived      |-> archived,
     DefaultBranch |-> IF Kind(i) = 1 THEN nTrunk ELSE nMain]

Br(name, protected, age) ==
    [Name |-> name, SHA |-> "sha", Protected |-> protected, AgeHours |-> age]

PR(number, ref, state, merged) ==
    [Number |-> number, Title |-> number, State |-> state, HeadRef |-> ref,
     MergedAt |-> IF merged THEN <<"t">> ELSE NoPR]

\* What ListBranches returns for repository i when it succeeds.
BranchesOf(i) ==
    IF Kind(i) = 1
    THEN << Br(nTrunk, FALSE, 400), Br(nFeat, FALSE, 10), Br(nOld, FALSE, 240) >>
    ELSE IF Kind(i) = 2
    THEN << Br(nFix, FALSE, 30), Br(nMain, TRUE, 1), Br(nWip, FALSE, 500) >>
    ELSE << Br(nMain, FALSE, 1), Br(nRel, FALSE, 9600) >>

\* What ListPullRequests(state = all) returns for repository i when it succeeds.
PullsOf(i) ==
    IF Kind(i) = 1
    THEN << PR(42, nFeat, "closed", TRUE), PR(43, nTrunk, "closed", TRUE) >>
    ELSE IF Kind(i) = 2
    THEN << PR(7, nWip, "closed", FALSE), PR(8, nWip, "open", FALSE),
            PR(9, nFix, "closed", FALSE) >>
    ELSE << >>

NilResult == [Nil |-> TRUE]       \* a nil *NamespaceScanResult
NoScan == [Nil |-> TRUE]          \* a worker that has no ScanResult yet
NoProgress == [Nil |-> TRUE]      \* a worker that has built no snapshot

\* One goroutine per repository of the filtered listing; a listing holds at
\* most MaxRepos + 1 repositories.
Workers == 1..(MaxRepos + 1)

\* Lines 43-48: the indices of the non-archived repositories, in order.
RECURSIVE FilterArchivedIncluded(_, _)
FilterArchivedIncluded(rs, i) ==
    IF i > Len(rs) THEN <<>> ELSE <<i>> \o FilterArchivedIncluded(rs, i + 1)

RECURSIVE FilterNonArchived(_, _)
FilterNonArchived(rs, i) ==
    IF i > Len(rs) THEN <<>>
    ELSE (IF ~rs[i].Archived THEN <<i>> ELSE <<>>) \o FilterNonArchived(rs, i + 1)

\* The repository worker w scans.
RepoIdx(w) == nonArchived[w]
RepoOf(w) == repos[nonArchived[w]]
NumWorkers == Len(nonArchived)


(***************************************************************************)
(* ScanNamespaceWithProgress: the calling goroutine                        *)
(***************************************************************************)
\* The listings the collaborator serves: n repositories that are not
\* archived, and possibly an archived one in second place (first, when it is
\* alone).
Listing(n, withArchived) ==
    LET len == IF withArchived THEN n + 1 ELSE n
        slot == IF n = 0 THEN 1 ELSE 2
    IN [i \in 1..len |-> Repository(i, withArchived /\ i = slot)]

Listings == {Listing(n, a) : n \in 0..MaxRepos, a \in BOOLEAN}

\* A user account's listing: like an organization's, kept to one repository.
UserListings == {rs \in Listings : Len(rs) <= 1}

\* Error messages, character by character; the empty message is a nil error.
NoMsg == <<>>
m404 == <<"H", "T", "T", "P", " ", "4", "0", "4">>
m403 == <<"H", "T", "T", "P", " ", "4", "0", "3">>
\* a server error whose text holds the request path of an organization
\* named t404
m500t404 == <<"5", "0", "0", " ", "t", "4", "0", "4">>

\* strings.Contains
Contains(str, sub) ==
    \E i \in 1..(Len(str) - Len(sub) + 1) : SubSeq(str, i, i + Len(sub) - 1) = sub

\* Line 628: strings.Contains(err.Error(), "404")
Mentions404(msg) == Contains(msg, <<"4", "0", "4">>)

\* What ListOrgRepositories and ListUserRepositories can answer.
OrgOutcomes ==
    {[err |-> NoMsg, repos |-> rs] : rs \in Listings}
    \cup {[err |-> m, repos |-> <<>>] : m \in {m404, m403, m500t404}}

UserOutcomes ==
    {[err |-> NoMsg, repos |-> rs] : rs \in UserListings}
    \cup {[err |-> m, repos |-> <<>>] : m \in {m404}}

ListingCall(op, outcome) == [op |-> op, err |-> outcome.err]

\* A plausible slip: the user listing tried after any failure of the
\* organization listing.
ListNamespaceRepositoriesAlwaysFallsBack(org, user) ==
    IF org.err = NoMsg
    THEN [repos |-> org.repos, isOrg |-> TRUE, err |-> FALSE,
          made |-> <<ListingCall("ListOrgRepositories", org)>>]
    ELSE [repos |-> user.repos, isOrg |-> FALSE, err |-> user.err # NoMsg,
          made |-> <<ListingCall("ListOrgRepositories", org),
                     ListingCall("ListUserRepositories", user)>>]

\* Client.ListNamespaceRepositories for given answers of the two listings:
\* what it returns and the calls it made.
ListNamespaceRepositories(org, user) ==
    IF org.err = NoMsg
    THEN [repos |-> org.repos, isOrg |-> TRUE, err |-> FALSE,
          made |-> <<ListingCall("ListOrgRepositories", org)>>]
    ELSE IF ~Mentions404(org.err)
    THEN [repos |-> <<>>, isOrg |-> FALSE, err |-> TRUE,
          made |-> <<ListingCall("ListOrgRepositories", org)>>]
    ELSE [repos |-> user.repos, isOrg |-> FALSE, err |-> user.err # NoMsg,
          made |-> <<ListingCall("ListOrgRepositories", org),
                     ListingCall("ListUserRepositories", user)>>]

\* A plausible slip: the scanner deleting as it goes, a DeleteBranch call
\* following the pull-request listing.
NoteCallDeleting(who, what, ok) ==
    calls' = [calls EXCEPT ![who] =
                 IF what = "ListPullRequests"
                 THEN Append(Append(@, [op |-> what, state |-> "all", ok |-> ok]),
                             [op |-> "DeleteBranch", state |-> "", ok |-> TRUE])
                 ELSE Append(@, [op |-> what, state |-> "", ok |-> ok])]

\* The call log: each call with its state filter (ListPullRequests is called
\* with "all", line 128; the other operations take none) and whether it
\* succeeded.
NoteCall(who, what, ok) ==
    calls' = [calls EXCEPT ![who] =
                 Append(@, [op |-> what,
                            state |-> IF what = "ListPullRequests" THEN "all" ELSE "",
                            ok |-> ok])]

\* A plausible slip: the failed listing surfaced together with an empty
\* result object.
MainListFailsWithResult ==
    /\ mainPc = "start"
    /\ NoteCall(0, "ListNamespaceRepositories", FALSE)
    /\ \E org \in OrgOutcomes : \E user \in UserOutcomes :
         LET r == ListNamespaceRepositories(org, user)
         IN /\ r.err
            /\ nsCalls' = r.made
    /\ mainPc' = "returned"
    /\ result' = [IsOrg |-> FALSE, Results |-> <<>>,
                  TotalRepos |-> 0, TotalOrphans |-> 0]
    /\ retErr' = TRUE
    /\ UNCHANGED <<cvars, tvars, kvars, mvars, options, progressOn, cancelled, repos, nonArchived, spawned,
                   wpc, wres, wbranches, wprs, wnext, semaphore, wg, closerPc,
                   resultsCh, chClosed, scannedCount, totalOrphans, wprogress,
                   delivered, handed>>

\* Lines 38-41: ListNamespaceRepositories failed: the organization listing
\* with an error that does not mention 404, or the user listing after it.
MainListFails ==
    /\ mainPc = "start"
    /\ NoteCall(0, "ListNamespaceRepositories", FALSE)
    /\ \E org \in OrgOutcomes : \E user \in UserOutcomes :
         LET r == ListNamespaceRepositories(org, user)
         IN /\ r.err
            /\ nsCalls' = r.made
    /\ mainPc' = "returned"
    /\ result' = NilResult
    /\ retErr' = TRUE
    /\ UNCHANGED <<cvars, tvars, kvars, mvars, options, progressOn, cancelled, repos, nonArchived, spawned,
                   wpc, wres, wbranches, wprs, wnext, semaphore, wg, closerPc,
                   resultsCh, chClosed, scannedCount, totalOrphans, wprogress,
                   delivered, handed>>

\* A plausible slip: the early return for an empty filtered list left out,
\* so that the channels are made and the closer goroutine is started.
MainListNoEarlyReturn ==
    /\ mainPc = "start"
    /\ NoteCall(0, "ListNamespaceRepositories", TRUE)
    /\ \E org \in OrgOutcomes : \E user \in UserOutcomes :
         LET r == ListNamespaceRepositories(org, user)
             na == FilterNonArchived(r.repos, 1)
         IN /\ ~r.err
            /\ nsCalls' = r.made
            /\ repos' = r.repos
            /\ nonArchived' = na
            /\ result' = [IsOrg |-> r.isOrg, Results |-> <<>>,
                          TotalRepos |-> Len(na), TotalOrphans |-> 0]
            /\ mainPc' = IF options.Concurrency < 0 THEN "panicked" ELSE "spawn"
    /\ UNCHANGED <<cvars, tvars, kvars, mvars, options, progressOn, cancelled, retErr, spawned,
                   wpc, wres, wbranches, wprs, wnext, semaphore, wg, closerPc,
                   resultsCh, chClosed, scannedCount, totalOrphans, wprogress,
                   delivered, handed>>

\* Lines 38-66: the listing succeeded; filter, build the result, return at
\* once when nothing is left, else make the channels. make(chan, n) panics
\* for n < 0.
MainList ==
    /\ mainPc = "start"
    /\ NoteCall(0, "ListNamespaceRepositories", TRUE)
    /\ \E org \in OrgOutcomes : \E user \in UserOutcomes :
         LET r == ListNamespaceRepositories(org, user)
             na == FilterNonArchived(r.repos, 1)
         IN /\ ~r.err
            /\ nsCalls' = r.made
            /\ repos' = r.repos
            /\ nonArchived' = na
            /\ result' = [IsOrg |-> r.isOrg, Results |-> <<>>,
                          TotalRepos |-> Len(na), TotalOrphans |-> 0]
            /\ mainPc' = IF Len(na) = 0 THEN "returned"
                         ELSE IF options.Concurrency < 0 THEN "panicked"
                         ELSE "spawn"
    /\ UNCHANGED <<cvars, tvars, kvars, mvars, options, progressOn, cancelled, retErr, spawned,
                   wpc, wres, wbranches, wprs, wnext, semaphore, wg, closerPc,
                   resultsCh, chClosed, scannedCount, totalOrphans, wprogress,
                   delivered, handed>>

\* Lines 68-70: wg.Add(1); go func(repo) for the next repository.
MainSpawn ==
    /\ mainPc = "spawn"
    /\ spawned < NumWorkers
    /\ spawned' = spawned + 1
    /\ wg' = wg + 1
    /\ wpc' = [wpc EXCEPT ![spawned + 1] = "admit"]
    /\ UNCHANGED <<cvars, tvars, kvars, mvars, nsCalls, options, progressOn, cancelled, mainPc, repos, nonArchived,
                   result, retErr, wres, wbranches, wprs, wnext, semaphore,
                   closerPc, resultsCh, chClosed, scannedCount, totalOrphans,
                   wprogress, delivered, handed, calls>>

\* Lines 103-106: start the goroutine that waits for the workers.
MainGoCloser ==
    /\ mainPc = "spawn"
    /\ spawned = NumWorkers
    /\ closerPc' = "wait"
    /\ mainPc' = "collect"
    /\ UNCHANGED <<cvars, tvars, kvars, mvars, nsCalls, options, progressOn, cancelled, repos, nonArchived, result,
                   retErr, spawned, wpc, wres, wbranches, wprs, wnext, semaphore,
                   wg, resultsCh, chClosed, scannedCount, totalOrphans,
                   wprogress, delivered, handed, calls>>

\* A plausible slip: the aggregation loop drops what it receives once the
\* context is cancelled.
CollectDropsAfterCancel(res, sr) ==
    IF cancelled THEN res
    ELSE [res EXCEPT !.Results = Append(@, sr),
                     !.TotalOrphans = @ + Len(sr.Orphans)]

\* Lines 109-110: the body of the range loop over resultsCh.
Collect(res, sr) ==
    [res EXCEPT !.Results = Append(@, sr),
                !.TotalOrphans = @ + Len(sr.Orphans)]

\* Lines 108-111: receive one ScanResult.
MainCollect ==
    /\ mainPc = "collect"
    /\ resultsCh # <<>>
    /\ result' = Collect(result, Head(resultsCh))
    /\ resultsCh' = Tail(resultsCh)
    /\ UNCHANGED <<cvars, tvars, kvars, mvars, nsCalls, options, progressOn, cancelled, mainPc, repos, nonArchived,
                   retErr, spawned, wpc, wres, wbranches, wprs, wnext, semaphore,
                   wg, closerPc, chClosed, scannedCount, totalOrphans,
                   wprogress, delivered, handed, calls>>

\* Lines 108, 113: the channel is closed and drained; return result, nil.
MainReturn ==
    /\ mainPc = "collect"
    /\ resultsCh = <<>>
    /\ chClosed
    /\ mainPc' = "returned"
    /\ UNCHANGED <<cvars, tvars, kvars, mvars, nsCalls, options, progressOn, cancelled, repos, nonArchived, result,
                   retErr, spawned, wpc, wres, wbranches, wprs, wnext, semaphore,
                   wg, closerPc, resultsCh, chClosed, scannedCount, totalOrphans,
                   wprogress, delivered, handed, calls>>

\* A plausible slip: the channel closed without waiting for the workers.
CloserWaitNoJoin ==
    /\ closerPc = "wait"
    /\ closerPc' = "close"
    /\ UNCHANGED <<cvars, tvars, kvars, mvars, nsCalls, options, progressOn, cancelled, mainPc, repos, nonArchived,
                   result, retErr, spawned, wpc, wres, wbranches, wprs, wnext,
                   semaphore, wg, resultsCh, chClosed, scannedCount,
                   totalOrphans, wprogress, delivered, handed, calls>>

\* Line 104: wg.Wait() returns once the counter is zero.
CloserWait ==
    /\ closerPc = "wait"
    /\ wg = 0
    /\ closerPc' = "close"
    /\ UNCHANGED <<cvars, tvars, kvars, mvars, nsCalls, options, progressOn, cancelled, mainPc, repos, nonArchived,
                   result, retErr, spawned, wpc, wres, wbranches, wprs, wnext,
                   semaphore, wg, resultsCh, chClosed, scannedCount,
                   totalOrphans, wprogress, delivered, handed, calls>>

\* Line 105: close(resultsCh).
CloserClose ==
    /\ closerPc = "close"
    /\ chClosed' = TRUE
    /\ closerPc' = "done"
    /\ UNCHANGED <<cvars, tvars, kvars, mvars, nsCalls, options, progressOn, cancelled, mainPc, repos, nonArchived,
                   result, retErr, spawned, wpc, wres, wbranches, wprs, wnext,
                   semaphore, wg, resultsCh, scannedCount, totalOrphans,
                   wprogress, delivered, handed, calls>>

\* The caller (or its deadline) cancels the context; possible at any moment
\* before the scan has returned.
Cancel ==
    /\ ~cancelled
    /\ mainPc \notin {"returned", "panicked", "ui"}
    /\ cancelled' = TRUE
    /\ UNCHANGED <<cvars, tvars, kvars, mvars, nsCalls, options, progressOn, mainPc, repos, nonArchived, result,
                   retErr, spawned, wpc, wres, wbranches, wprs, wnext, semaphore,
                   wg, closerPc, resultsCh, chClosed, scannedCount, totalOrphans,
                   wprogress, delivered, handed, calls>>


(***************************************************************************)
(* The interactive review of a returned result (tui/components/orphans)    *)
(***************************************************************************)
\* OrphanedBranch.Key: Repository + "/" + BranchName
Key(o) == o.Repository \o <<"/">> \o o.BranchName

\* The inner loop of removeOrphanFromResult: from the last orphan down, drop
\* the first one that has the key.
RECURSIVE RemoveLast(_, _, _)
RemoveLast(orphans, key, j) ==
    IF j = 0 THEN orphans
    ELSE IF Key(orphans[j]) = key
         THEN SubSeq(orphans, 1, j - 1) \o SubSeq(orphans, j + 1, Len(orphans))
    ELSE RemoveLast(orphans, key, j - 1)

\* A plausible slip: the orphan removed without TotalOrphans being adjusted.
RECURSIVE removeOrphanKeepsTotal(_, _, _)
removeOrphanKeepsTotal(res, key, i) ==
    IF i > Len(res.Results) THEN res
    ELSE LET old == res.Results[i].Orphans
             new == RemoveLast(old, key, Len(old))
         IN removeOrphanKeepsTotal([res EXCEPT !.Results[i].Orphans = new], key, i + 1)

\* Model.removeOrphanFromResult, from the i-th ScanResult on: every ScanResult
\* loses at most one orphan, and TotalOrphans one per orphan lost.
RECURSIVE removeOrphanFromResult(_, _, _)
removeOrphanFromResult(res, key, i) ==
    IF i > Len(res.Results) THEN res
    ELSE LET old == res.Results[i].Orphans
             new == RemoveLast(old, key, Len(old))
             next == IF new = old THEN res
                     ELSE [res EXCEPT !.Results[i].Orphans = new,
                                      !.TotalOrphans = @ - 1]
         IN removeOrphanFromResult(next, key, i + 1)

\* The keys of the orphans the review shows.
ShownKeys ==
    {Key(o) : o \in UNION {{result.Results[k].Orphans[j] :
                                j \in 1..Len(result.Results[k].Orphans)} :
                            k \in 1..Len(result.Results)}}

DeleteFailures ==
    Cardinality({k \in 1..Len(calls[0]) :
                    calls[0][k].op = "DeleteBranch" /\ ~calls[0][k].ok})

\* executeDelete's command for one target and Update's case deleteResultMsg
\* with a nil error: DeleteBranch succeeded, the orphan leaves the result.
DeleteOk ==
    /\ mainPc \in {"returned", "ui"}
    /\ result # NilResult
    /\ \E key \in ShownKeys : result' = removeOrphanFromResult(result, key, 1)
    /\ NoteCall(0, "DeleteBranch", TRUE)
    /\ mainPc' = "ui"
    /\ UNCHANGED <<cvars, tvars, kvars, mvars, nsCalls, options, progressOn, cancelled, repos, nonArchived,
                   retErr, spawned, wpc, wres, wbranches, wprs, wnext, semaphore,
                   wg, closerPc, resultsCh, chClosed, scannedCount, totalOrphans,
                   wprogress, delivered, handed>>

\* The same with a non-nil error: only the status line changes.
DeleteFails ==
    /\ mainPc \in {"returned", "ui"}
    /\ result # NilResult
    /\ ShownKeys # {}
    /\ DeleteFailures < MaxDeleteFailures
    /\ NoteCall(0, "DeleteBranch", FALSE)
    /\ mainPc' = "ui"
    /\ UNCHANGED <<cvars, tvars, kvars, mvars, nsCalls, options, progressOn, cancelled, repos, nonArchived,
                   result, retErr, spawned, wpc, wres, wbranches, wprs, wnext,
                   semaphore, wg, closerPc, resultsCh, chClosed, scannedCount,
                   totalOrphans, wprogress, delivered, handed>>


(***************************************************************************)
(* ScanNamespaceWithProgress: the worker goroutine of one repository       *)
(***************************************************************************)
NoErr == "nil"

\* A plausible slip: the semaphore made with room for every repository.
SlotFreeUnbounded == semaphore < NumWorkers

\* Line 76: a send on the semaphore channel can proceed. The channel holds
\* at most Concurrency tokens; with Concurrency = 0 it is unbuffered and no
\* goroutine ever receives from it before a send succeeded, so no send
\* proceeds.
SlotFree == semaphore < options.Concurrency

\* Lines 73-75: the select takes the ctx.Done() case; the deferred wg.Done()
\* is all that is left.
AdmitCancelled(w) ==
    /\ wpc[w] = "admit"
    /\ cancelled
    /\ wpc' = [wpc EXCEPT ![w] = "wgdone"]
    /\ UNCHANGED <<cvars, tvars, kvars, mvars, nsCalls, options, progressOn, cancelled, mainPc, repos,
                   nonArchived, result, retErr, spawned, wres, wbranches, wprs,
                   wnext, semaphore, wg, closerPc, resultsCh, chClosed,
                   scannedCount, totalOrphans, wprogress, delivered, handed,
                   calls>>

\* Lines 73, 76-77 and 117-120: the select takes the semaphore case (Go picks
\* among the ready cases at random, so this is possible whenever a slot is
\* free, cancelled or not), and ScanRepo starts with an empty result.
AdmitAcquire(w) ==
    /\ wpc[w] = "admit"
    /\ SlotFree
    /\ semaphore' = semaphore + 1
    /\ wres' = [wres EXCEPT ![w] =
                   [Repository |-> RepoOf(w),
                    DefaultBranch |-> RepoOf(w).DefaultBranch,
                    Orphans |-> <<>>,
                    Error |-> NoErr]]
    /\ wpc' = [wpc EXCEPT ![w] = "listBranches"]
    /\ UNCHANGED <<cvars, tvars, kvars, mvars, nsCalls, options, progressOn, cancelled, mainPc, repos,
                   nonArchived, result, retErr, spawned, wbranches, wprs, wnext,
                   wg, closerPc, resultsCh, chClosed, scannedCount,
                   totalOrphans, wprogress, delivered, handed, calls>>

\* A plausible slip: the result channel sized like the semaphore.
ResultsCapOfConcurrency == options.Concurrency

\* Line 60: the capacity of resultsCh, len(nonArchivedRepos).
ResultsCap == Len(nonArchived)

\* Lines 80-83: ScanRepo has returned sr; resultsCh <- scanResult. A send
\* proceeds while the buffer has room (the receiver's side is MainCollect);
\* a send on a closed channel panics. The result stays in hand only for the
\* progress snapshot.
HandOff(w, sr) ==
    /\ Len(resultsCh) < ResultsCap
    /\ IF chClosed
       THEN /\ wpc' = [wpc EXCEPT ![w] = "panicked"]
            /\ wres' = [wres EXCEPT ![w] = NoScan]
            /\ UNCHANGED <<resultsCh, handed>>
       ELSE /\ resultsCh' = Append(resultsCh, sr)
            /\ handed' = Append(handed, sr)
            /\ wpc' = [wpc EXCEPT ![w] = IF progressOn THEN "progress" ELSE "release"]
            /\ wres' = [wres EXCEPT ![w] = IF progressOn THEN sr ELSE NoScan]

\* A plausible slip: a failed listing leaves the Error unset.
FailedSwallowed(sr, what) == sr

\* Lines 123-126, 129-132: what ScanRepo returns when a listing failed.
Failed(sr, what) == [sr EXCEPT !.Error = what]

\* A plausible slip: the failure of ListBranches noted, and the pull requests
\* listed all the same.
ListBranchesFailsGoesOn(w) ==
    /\ wpc[w] = "listBranches"
    /\ NoteCall(w, "ListBranches", FALSE)
    /\ wres' = [wres EXCEPT ![w] = Failed(@, "ListBranches failed")]
    /\ wpc' = [wpc EXCEPT ![w] = "listPRs"]
    /\ UNCHANGED <<cvars, tvars, kvars, mvars, nsCalls, options, progressOn, cancelled, mainPc, repos,
                   nonArchived, result, retErr, spawned, wbranches, wprs, wnext,
                   semaphore, wg, closerPc, resultsCh, chClosed, scannedCount,
                   totalOrphans, wprogress, delivered, handed>>

\* Lines 122-126: ListBranches fails; ScanRepo returns the result with Error.
ListBranchesFails(w) ==
    /\ wpc[w] = "listBranches"
    /\ NoteCall(w, "ListBranches", FALSE)
    /\ HandOff(w, Failed(wres[w], "ListBranches failed"))
    /\ UNCHANGED <<cvars, tvars, kvars, mvars, nsCalls, options, progressOn, cancelled, mainPc, repos,
                   nonArchived, result, retErr, spawned, wbranches, wprs, wnext,
                   semaphore, wg, closerPc, chClosed, scannedCount,
                   totalOrphans, wprogress, delivered>>

\* Line 122: ListBranches succeeds.
ListBranchesOk(w) ==
    /\ wpc[w] = "listBranches"
    /\ NoteCall(w, "ListBranches", TRUE)
    /\ wbranches' = [wbranches EXCEPT ![w] = BranchesOf(RepoIdx(w))]
    /\ wpc' = [wpc EXCEPT ![w] = "listPRs"]
    /\ UNCHANGED <<cvars, tvars, kvars, mvars, nsCalls, options, progressOn, cancelled, mainPc, repos,
                   nonArchived, result, retErr, spawned, wres, wprs, wnext,
                   semaphore, wg, closerPc, resultsCh, chClosed, scannedCount,
                   totalOrphans, wprogress, delivered, handed>>

\* Lines 128-132: ListPullRequests fails.
ListPullsFails(w) ==
    /\ wpc[w] = "listPRs"
    /\ NoteCall(w, "ListPullRequests", FALSE)
    /\ HandOff(w, Failed(wres[w], "ListPullRequests failed"))
    /\ wbranches' = [wbranches EXCEPT ![w] = <<>>]
    /\ UNCHANGED <<cvars, tvars, kvars, mvars, nsCalls, options, progressOn, cancelled, mainPc, repos,
                   nonArchived, result, retErr, spawned, wprs, wnext,
                   semaphore, wg, closerPc, chClosed, scannedCount,
                   totalOrphans, wprogress, delivered>>

\* Lines 128, 134-136: ListPullRequests succeeds and the range loop starts;
\* over an empty branch list it ends at once.
ListPullsOk(w) ==
    /\ wpc[w] = "listPRs"
    /\ NoteCall(w, "ListPullRequests", TRUE)
    /\ IF wbranches[w] = <<>>
       THEN /\ HandOff(w, wres[w])
            /\ UNCHANGED <<wprs, wnext>>
       ELSE /\ wprs' = [wprs EXCEPT ![w] = PullsOf(RepoIdx(w))]
            /\ wnext' = [wnext EXCEPT ![w] = 1]
            /\ wpc' = [wpc EXCEPT ![w] = "loop"]
            /\ UNCHANGED <<wres, resultsCh, handed>>
    /\ UNCHANGED <<cvars, tvars, kvars, mvars, nsCalls, options, progressOn, cancelled, mainPc, repos,
                   nonArchived, result, retErr, spawned, wbranches,
                   semaphore, wg, closerPc, chClosed, scannedCount,
                   totalOrphans, wprogress, delivered>>

\* A plausible slip: the newest orphan put in front.
WithOrphanInFront(sr, branch, prs) ==
    LET o == ClassifyBranch(options, sr.Repository, branch, prs)
    IN IF o = NilOrphan THEN sr ELSE [sr EXCEPT !.Orphans = <<o>> \o @]

\* Lines 147-149: classify one branch and keep the orphan, if any.
WithOrphan(sr, branch, prs) ==
    LET o == ClassifyBranch(options, sr.Repository, branch, prs)
    IN IF o = NilOrphan THEN sr ELSE [sr EXCEPT !.Orphans = Append(@, o)]

\* A plausible slip: the default branch classified like any other branch.
IsDefaultBranchNever(repo, branch) == FALSE

\* Line 137: the branch is the repository's default branch.
IsDefaultBranch(repo, branch) == branch.Name = repo.DefaultBranch

\* A plausible slip: the context is not consulted inside the loop.
LoopStepIgnoresCancel(w) ==
    /\ wpc[w] = "loop"
    /\ LET branch == wbranches[w][wnext[w]]
           isDefault == IsDefaultBranch(wres[w].Repository, branch)
           last == wnext[w] = Len(wbranches[w])
           sr == IF isDefault THEN wres[w]
                 ELSE WithOrphan(wres[w], branch, wprs[w])
       IN IF last
          THEN /\ HandOff(w, sr)
               /\ wnext' = [wnext EXCEPT ![w] = 0]
               /\ wbranches' = [wbranches EXCEPT ![w] = <<>>]
               /\ wprs' = [wprs EXCEPT ![w] = <<>>]
          ELSE /\ wres' = [wres EXCEPT ![w] = sr]
               /\ wnext' = [wnext EXCEPT ![w] = @ + 1]
               /\ UNCHANGED <<wpc, wbranches, wprs, resultsCh, handed>>
    /\ UNCHANGED <<cvars, tvars, kvars, mvars, nsCalls, options, progressOn, cancelled, mainPc, repos,
                   nonArchived, result, retErr, spawned, semaphore, wg,
                   closerPc, chClosed, scannedCount, totalOrphans,
                   wprogress, delivered, calls>>

\* A plausible slip: the cancellation written into the result as its Error.
LoopStepRecordsCancel(w) ==
    /\ wpc[w] = "loop"
    /\ LET branch == wbranches[w][wnext[w]]
           isDefault == IsDefaultBranch(wres[w].Repository, branch)
           stop == ~isDefault /\ cancelled
           last == wnext[w] = Len(wbranches[w])
           sr == IF isDefault THEN wres[w]
                 ELSE IF stop THEN [wres[w] EXCEPT !.Error = "context canceled"]
                 ELSE WithOrphan(wres[w], branch, wprs[w])
       IN IF stop \/ last
          THEN /\ HandOff(w, sr)
               /\ wnext' = [wnext EXCEPT ![w] = 0]
               /\ wbranches' = [wbranches EXCEPT ![w] = <<>>]
               /\ wprs' = [wprs EXCEPT ![w] = <<>>]
          ELSE /\ wres' = [wres EXCEPT ![w] = sr]
               /\ wnext' = [wnext EXCEPT ![w] = @ + 1]
               /\ UNCHANGED <<wpc, wbranches, wprs, resultsCh, handed>>
    /\ UNCHANGED <<cvars, tvars, kvars, mvars, nsCalls, options, progressOn, cancelled, mainPc, repos,
                   nonArchived, result, retErr, spawned, semaphore, wg,
                   closerPc, chClosed, scannedCount, totalOrphans,
                   wprogress, delivered, calls>>

\* Lines 136-152: one iteration of the range loop over the branches: skip
\* the default branch; return early when the context is cancelled; else
\* classify. When ScanRepo returns (early, or after the last branch) its
\* locals are dropped and the result is handed off.
LoopStep(w) ==
    /\ wpc[w] = "loop"
    /\ LET branch == wbranches[w][wnext[w]]
           isDefault == IsDefaultBranch(wres[w].Repository, branch)
           stop == ~isDefault /\ cancelled
           last == wnext[w] = Len(wbranches[w])
           sr == IF isDefault \/ stop THEN wres[w]
                 ELSE WithOrphan(wres[w], branch, wprs[w])
       IN IF stop \/ last
          THEN /\ HandOff(w, sr)
               /\ wnext' = [wnext EXCEPT ![w] = 0]
               /\ wbranches' = [wbranches EXCEPT ![w] = <<>>]
               /\ wprs' = [wprs EXCEPT ![w] = <<>>]
          ELSE /\ wres' = [wres EXCEPT ![w] = sr]
               /\ wnext' = [wnext EXCEPT ![w] = @ + 1]
               /\ UNCHANGED <<wpc, wbranches, wprs, resultsCh, handed>>
    /\ UNCHANGED <<cvars, tvars, kvars, mvars, nsCalls, options, progressOn, cancelled, mainPc, repos,
                   nonArchived, result, retErr, spawned, semaphore, wg,
                   closerPc, chClosed, scannedCount, totalOrphans,
                   wprogress, delivered, calls>>

\* A plausible slip: the snapshot reports the orphans of the repository just
\* finished instead of the running total.
ProgressOwnOrphans(w) ==
    /\ wpc[w] = "progress"
    /\ scannedCount' = scannedCount + 1
    /\ totalOrphans' = totalOrphans + Len(wres[w].Orphans)
    /\ wprogress' = [wprogress EXCEPT ![w] =
                        [Current |-> scannedCount',
                         Total |-> Len(nonArchived),
                         CurrentRepo |-> wres[w].Repository.FullName,
                         Orphans |-> Len(wres[w].Orphans)]]
    /\ wres' = [wres EXCEPT ![w] = NoScan]
    /\ wpc' = [wpc EXCEPT ![w] = "emit"]
    /\ UNCHANGED <<cvars, tvars, kvars, mvars, nsCalls, options, progressOn, cancelled, mainPc, repos,
                   nonArchived, result, retErr, spawned, wbranches, wprs, wnext,
                   semaphore, wg, closerPc, resultsCh, chClosed, delivered,
                   handed, calls>>

\* Lines 83-93: under progressMu, count the repository and build the
\* snapshot. The mutex makes the section atomic with respect to the other
\* workers, the only goroutines that touch the counters.
Progress(w) ==
    /\ wpc[w] = "progress"
    /\ scannedCount' = scannedCount + 1
    /\ totalOrphans' = totalOrphans + Len(wres[w].Orphans)
    /\ wprogress' = [wprogress EXCEPT ![w] =
                        [Current |-> scannedCount',
                         Total |-> Len(nonArchived),
                         CurrentRepo |-> wres[w].Repository.FullName,
                         Orphans |-> totalOrphans']]
    /\ wres' = [wres EXCEPT ![w] = NoScan]
    /\ wpc' = [wpc EXCEPT ![w] = "emit"]
    /\ UNCHANGED <<cvars, tvars, kvars, mvars, nsCalls, options, progressOn, cancelled, mainPc, repos,
                   nonArchived, result, retErr, spawned, wbranches, wprs, wnext,
                   semaphore, wg, closerPc, resultsCh, chClosed, delivered,
                   handed, calls>>

\* Lines 95-96: the sink takes the snapshot.
EmitDelivered(w) ==
    /\ wpc[w] = "emit"
    /\ delivered' = wprogress[w]
    /\ wprogress' = [wprogress EXCEPT ![w] = NoProgress]
    /\ wpc' = [wpc EXCEPT ![w] = "release"]
    /\ UNCHANGED <<cvars, tvars, kvars, mvars, nsCalls, options, progressOn, cancelled, mainPc, repos,
                   nonArchived, result, retErr, spawned, wres, wbranches, wprs,
                   wnext, semaphore, wg, closerPc, resultsCh, chClosed,
                   scannedCount, totalOrphans, handed, calls>>

\* A plausible slip: a plain send, which waits until the sink takes the
\* snapshot; a sink that is not ready offers the worker no step.
EmitBlocking(w) ==
    /\ wpc[w] = "emit"
    /\ FALSE
    /\ UNCHANGED vars

\* Lines 95, 97: the sink is not ready (no receiver waiting, buffer full);
\* the default case drops the snapshot.
EmitDropped(w) ==
    /\ wpc[w] = "emit"
    /\ wprogress' = [wprogress EXCEPT ![w] = NoProgress]
    /\ wpc' = [wpc EXCEPT ![w] = "release"]
    /\ UNCHANGED <<cvars, tvars, kvars, mvars, nsCalls, options, progressOn, cancelled, mainPc, repos,
                   nonArchived, result, retErr, spawned, wres, wbranches, wprs,
                   wnext, semaphore, wg, closerPc, resultsCh, chClosed,
                   scannedCount, totalOrphans, delivered, handed, calls>>

\* Line 77: the deferred <-semaphore (deferred last, so run first).
Release(w) ==
    /\ wpc[w] = "release"
    /\ semaphore' = semaphore - 1
    /\ wpc' = [wpc EXCEPT ![w] = "wgdone"]
    /\ UNCHANGED <<cvars, tvars, kvars, mvars, nsCalls, options, progressOn, cancelled, mainPc, repos,
                   nonArchived, result, retErr, spawned, wres, wbranches, wprs,
                   wnext, wg, closerPc, resultsCh, chClosed, scannedCount,
                   totalOrphans, wprogress, delivered, handed, calls>>

\* Line 71: the deferred wg.Done().
WgDone(w) ==
    /\ wpc[w] = "wgdone"
    /\ wg' = wg - 1
    /\ wpc' = [wpc EXCEPT ![w] = "done"]
    /\ UNCHANGED <<cvars, tvars, kvars, mvars, nsCalls, options, progressOn, cancelled, mainPc, repos,
                   nonArchived, result, retErr, spawned, wres, wbranches, wprs,
                   wnext, semaphore, closerPc, resultsCh, chClosed,
                   scannedCount, totalOrphans, wprogress, delivered, handed,
                   calls>>

Worker(w) ==
    \/ AdmitCancelled(w)
    \/ AdmitAcquire(w)
    \/ ListBranchesFails(w)
    \/ ListBranchesOk(w)
    \/ ListPullsFails(w)
    \/ ListPullsOk(w)
    \/ LoopStep(w)
    \/ Progress(w)
    \/ EmitDelivered(w)
    \/ EmitDropped(w)
    \/ Release(w)
    \/ WgDone(w)

(***************************************************************************)
(* cache.MemoryManager: every method runs under the manager's lock, so each *)
(* call is one step. Time is a clock of whole ticks.                        *)
(***************************************************************************)
CacheKeys == {"k1", "k2"}
NoEntry == [Absent |-> TRUE]          \* no entry under the key
NoOut == [op |-> "none"]

\* The values handed to Set and the destinations handed to Get.
GoValues == {[type |-> "string", v |-> "a"],
             [type |-> "int", v |-> 7],
             [type |-> "chan", v |-> 0]}
DestTypes == {"string", "int"}

\* json.Marshal: a channel has no JSON encoding.
Marshal(val) ==
    [ok   |-> val.type # "chan",
     json |-> [kind |-> IF val.type = "string" THEN "string" ELSE "number",
               text |-> val.v]]

\* json.Unmarshal into a *string or *int destination succeeds for JSON of the
\* matching kind only.
Unmarshal(json, dtype) ==
    \/ json.kind = "string" /\ dtype = "string"
    \/ json.kind = "number" /\ dtype = "int"

\* time.Now().After(entry.expiresAt)
Expired(entry) == mNow > entry.expiresAt

\* A plausible slip: the expiry not checked.
GetIgnoresExpiry(k, dtype) ==
    /\ mOut' = IF mData[k] = NoEntry
               THEN [op |-> "Get", key |-> k, dest |-> dtype, found |-> FALSE, err |-> FALSE]
               ELSE IF ~Unmarshal(mData[k].value, dtype)
               THEN [op |-> "Get", key |-> k, dest |-> dtype, found |-> FALSE, err |-> TRUE]
               ELSE [op |-> "Get", key |-> k, dest |-> dtype, found |-> TRUE, err |-> FALSE]
    /\ UNCHANGED <<cvars, tvars, svars, kvars, mTtl, mData, mNow, mSetAt, mSwept>>

\* MemoryManager.Get
Get(k, dtype) ==
    /\ mOut' = IF mData[k] = NoEntry
               THEN [op |-> "Get", key |-> k, dest |-> dtype, found |-> FALSE, err |-> FALSE]
               ELSE IF Expired(mData[k])
               THEN [op |-> "Get", key |-> k, dest |-> dtype, found |-> FALSE, err |-> FALSE]
               ELSE IF ~Unmarshal(mData[k].value, dtype)
               THEN [op |-> "Get", key |-> k, dest |-> dtype, found |-> FALSE, err |-> TRUE]
               ELSE [op |-> "Get", key |-> k, dest |-> dtype, found |-> TRUE, err |-> FALSE]
    /\ UNCHANGED <<cvars, tvars, svars, kvars, mTtl, mData, mNow, mSetAt, mSwept>>

\* MemoryManager.Set: nothing is stored when the value does not marshal.
Set(k, val) ==
    /\ IF Marshal(val).ok
       THEN /\ mData' = [mData EXCEPT ![k] = [value |-> Marshal(val).json,
                                              expiresAt |-> mNow + mTtl]]
            /\ mSetAt' = [mSetAt EXCEPT ![k] = <<mNow, val>>]
            /\ mSwept' = [mSwept EXCEPT ![k] = FALSE]
       ELSE UNCHANGED <<mData, mSetAt, mSwept>>
    /\ mOut' = [op |-> "Set", key |-> k, err |-> ~Marshal(val).ok]
    /\ UNCHANGED <<cvars, tvars, svars, kvars, mTtl, mNow>>

\* MemoryManager.Delete
Delete(k) ==
    /\ mData' = [mData EXCEPT ![k] = NoEntry]
    /\ mSetAt' = [mSetAt EXCEPT ![k] = <<>>]
    /\ mSwept' = [mSwept EXCEPT ![k] = FALSE]
    /\ mOut' = [op |-> "Delete", key |-> k, err |-> FALSE]
    /\ UNCHANGED <<cvars, tvars, svars, kvars, mTtl, mNow>>

\* MemoryManager.Clear
Clear ==
    /\ mData' = [k \in CacheKeys |-> NoEntry]
    /\ mSetAt' = [k \in CacheKeys |-> <<>>]
    /\ mSwept' = [k \in CacheKeys |-> FALSE]
    /\ mOut' = [op |-> "Clear", err |-> FALSE]
    /\ UNCHANGED <<cvars, tvars, svars, kvars, mTtl, mNow>>

\* The value set under k at mSetAt[k] is past its time to live.
Outlived(k) == mSetAt[k] # <<>> /\ mNow - mSetAt[k][1] > mTtl

\* A plausible slip: the entry that expires at this very instant is removed
\* too (!now.Before instead of now.After).
CleanExpiredAtBoundary ==
    /\ mData' = [k \in CacheKeys |->
                    IF mData[k] # NoEntry /\ mNow >= mData[k].expiresAt
                    THEN NoEntry ELSE mData[k]]
    /\ mSwept' = [k \in CacheKeys |-> mSwept[k] \/ Outlived(k)]
    /\ mOut' = [op |-> "CleanExpired", err |-> FALSE]
    /\ UNCHANGED <<cvars, tvars, svars, kvars, mTtl, mNow, mSetAt>>

\* MemoryManager.CleanExpired
CleanExpired ==
    /\ mData' = [k \in CacheKeys |->
                    IF mData[k] # NoEntry /\ Expired(mData[k])
                    THEN NoEntry ELSE mData[k]]
    /\ mSwept' = [k \in CacheKeys |-> mSwept[k] \/ Outlived(k)]
    /\ mOut' = [op |-> "CleanExpired", err |-> FALSE]
    /\ UNCHANGED <<cvars, tvars, svars, kvars, mTtl, mNow, mSetAt>>

\* MemoryManager.Stats
Stats ==
    /\ mOut' = [op |-> "Stats",
                total |-> Cardinality({k \in CacheKeys : mData[k] # NoEntry}),
                expired |-> Cardinality({k \in CacheKeys :
                                mData[k] # NoEntry /\ Expired(mData[k])}),
                err |-> FALSE]
    /\ UNCHANGED <<cvars, tvars, svars, kvars, mTtl, mData, mNow, mSetAt, mSwept>>

\* Time passes between two calls.
Tick ==
    /\ mNow < MaxClock
    /\ mNow' = mNow + 1
    /\ mOut' = NoOut
    /\ UNCHANGED <<cvars, tvars, svars, kvars, mTtl, mData, mSetAt, mSwept>>

CacheIdle ==
    /\ mTtl = 0
    /\ mData = [k \in CacheKeys |-> NoEntry]
    /\ mNow = 0
    /\ mOut = NoOut
    /\ mSetAt = [k \in CacheKeys |-> <<>>]
    /\ mSwept = [k \in CacheKeys |-> FALSE]


(***************************************************************************)
(* runCleanup of the orphans command (gh-sweep orphans --cleanup)          *)
(***************************************************************************)
\* strings.SplitN(str, "/", 2): the text before and after the first "/", or
\* the text alone when it holds none.
RECURSIVE FirstSlash(_, _)
FirstSlash(str, i) ==
    IF i > Len(str) THEN 0
    ELSE IF str[i] = "/" THEN i
    ELSE FirstSlash(str, i + 1)

SplitN2(str) ==
    LET i == FirstSlash(str, 1)
    IN IF i = 0 THEN <<str>>
       ELSE <<SubSeq(str, 1, i - 1), SubSeq(str, i + 1, Len(str))>>

\* NamespaceScanResult.AllOrphans, over the Results
RECURSIVE AllOrphans(_)
AllOrphans(results) ==
    IF results = <<>> THEN <<>>
    ELSE Head(results).Orphans \o AllOrphans(Tail(results))

\* The results runCleanup is handed: what a scan returns, so repositories
\* with the full names the API gives them (owner/name) and their orphans.
nGH == <<"g", "/", "h">>
CleanupNames == {nFeat, nOld, nGH}

CleanupRepos ==
    {[FullName |-> <<"o", "/", "a">>, Archived |-> FALSE, DefaultBranch |-> nMain],
     [FullName |-> <<"o", "/", "b">>, Archived |-> FALSE, DefaultBranch |-> nMain]}

CleanupScanResult(repo, names) ==
    [Repository    |-> repo,
     DefaultBranch |-> repo.DefaultBranch,
     Orphans       |-> [i \in 1..Len(names) |->
                           Orphan(repo, Br(names[i], FALSE, 240), "stale", NoPR)],
     Error         |-> NoErr]

CleanupResults ==
    {LET rs == [i \in 1..Len(rseq) |-> CleanupScanResult(rseq[i], nseqs[i])]
     IN [IsOrg |-> TRUE, Results |-> rs, TotalRepos |-> Len(rs),
         TotalOrphans |-> Len(AllOrphans(rs))] :
        rseq \in DistinctSeqsUpTo(CleanupRepos, 2),
        nseqs \in [1..2 -> DistinctSeqsUpTo(CleanupNames, MaxCleanupOrphans)]}

\* Lines 184-199: allOrphans, the early return and the header.
CleanupStart ==
    /\ kPc = "start"
    /\ kAll' = AllOrphans(kResult.Results)
    /\ IF kAll' = <<>>
       THEN /\ kOut' = <<[tag |-> "nothing to clean up"]>>
            /\ kPc' = "done"
            /\ kNext' = 0
       ELSE /\ kOut' = <<[tag |-> IF kDryRun THEN "DRY RUN header" ELSE "header"]>>
            /\ kPc' = "loop"
            /\ kNext' = 1
    /\ kDeleted' = 0
    /\ kFailed' = 0
    /\ UNCHANGED <<cvars, tvars, svars, mvars, kResult, kDryRun, kLog>>

CleanupLine(tag, orphan) ==
    [tag |-> tag, repository |-> orphan.Repository, branch |-> orphan.BranchName]

CleanupCall(orphan, ok) ==
    [owner  |-> SplitN2(orphan.Repository)[1],
     repo   |-> SplitN2(orphan.Repository)[2],
     branch |-> orphan.BranchName,
     ok     |-> ok]

\* A plausible slip: the first failed deletion ends the batch.
CleanupStepStopsOnFailure ==
    /\ kPc = "loop"
    /\ kNext <= Len(kAll)
    /\ LET orphan == kAll[kNext]
       IN IF Len(SplitN2(orphan.Repository)) # 2
          THEN /\ kNext' = kNext + 1
               /\ UNCHANGED <<kPc, kDeleted, kFailed, kOut, kLog>>
          ELSE IF kDryRun
          THEN /\ kOut' = Append(kOut, CleanupLine("DRY RUN", orphan))
               /\ kDeleted' = kDeleted + 1
               /\ kNext' = kNext + 1
               /\ UNCHANGED <<kPc, kFailed, kLog>>
          ELSE \E ok \in BOOLEAN :
               /\ kLog' = Append(kLog, CleanupCall(orphan, ok))
               /\ kOut' = Append(kOut, CleanupLine(IF ok THEN "DELETED" ELSE "FAILED",
                                                   orphan))
               /\ kDeleted' = IF ok THEN kDeleted + 1 ELSE kDeleted
               /\ kFailed' = IF ok THEN kFailed ELSE kFailed + 1
               /\ kNext' = IF ok THEN kNext + 1 ELSE Len(kAll) + 1
               /\ UNCHANGED kPc
    /\ UNCHANGED <<cvars, tvars, svars, mvars, kResult, kDryRun, kAll>>

\* A plausible slip: the dry-run test placed after the call.
CleanupStepDeletesInDryRun ==
    /\ kPc = "loop"
    /\ kNext <= Len(kAll)
    /\ LET orphan == kAll[kNext]
       IN IF Len(SplitN2(orphan.Repository)) # 2
          THEN /\ kNext' = kNext + 1
               /\ UNCHANGED <<kPc, kDeleted, kFailed, kOut, kLog>>
          ELSE \E ok \in BOOLEAN :
               /\ kLog' = Append(kLog, CleanupCall(orphan, ok))
               /\ kOut' = Append(kOut,
                                 CleanupLine(IF kDryRun THEN "DRY RUN"
                                             ELSE IF ok THEN "DELETED" ELSE "FAILED",
                                             orphan))
               /\ kDeleted' = IF ok \/ kDryRun THEN kDeleted + 1 ELSE kDeleted
               /\ kFailed' = IF ok \/ kDryRun THEN kFailed ELSE kFailed + 1
               /\ kNext' = kNext + 1
               /\ UNCHANGED kPc
    /\ UNCHANGED <<cvars, tvars, svars, mvars, kResult, kDryRun, kAll>>

\* Lines 201-222: one iteration of the range loop over allOrphans: skip an
\* orphan whose repository name does not split into owner and name; preview
\* it in a dry run; else call DeleteBranch, which succeeds or fails, and
\* go on to the next orphan either way.
CleanupStep ==
    /\ kPc = "loop"
    /\ kNext <= Len(kAll)
    /\ LET orphan == kAll[kNext]
       IN IF Len(SplitN2(orphan.Repository)) # 2
          THEN /\ kNext' = kNext + 1
               /\ UNCHANGED <<kPc, kDeleted, kFailed, kOut, kLog>>
          ELSE IF kDryRun
          THEN /\ kOut' = Append(kOut, CleanupLine("DRY RUN", orphan))
               /\ kDeleted' = kDeleted + 1
               /\ kNext' = kNext + 1
               /\ UNCHANGED <<kPc, kFailed, kLog>>
          ELSE \E ok \in BOOLEAN :
               /\ kLog' = Append(kLog, CleanupCall(orphan, ok))
               /\ kOut' = Append(kOut, CleanupLine(IF ok THEN "DELETED" ELSE "FAILED",
                                                   orphan))
               /\ kDeleted' = IF ok THEN kDeleted + 1 ELSE kDeleted
               /\ kFailed' = IF ok THEN kFailed ELSE kFailed + 1
               /\ kNext' = kNext + 1
               /\ UNCHANGED kPc
    /\ UNCHANGED <<cvars, tvars, svars, mvars, kResult, kDryRun, kAll>>

\* Line 224: the loop is over; print the totals.
CleanupTotal ==
    /\ kPc = "loop"
    /\ kNext > Len(kAll)
    /\ kOut' = Append(kOut, [tag |-> "Total", deleted |-> kDeleted, failed |-> kFailed])
    /\ kPc' = "done"
    /\ UNCHANGED <<cvars, tvars, svars, mvars, kResult, kDryRun, kAll, kNext, kDeleted,
                   kFailed, kLog>>

CleanupIdle ==
    /\ kResult = NilResult
    /\ kDryRun = FALSE
    /\ kPc = "idle"
    /\ kAll = <<>>
    /\ kNext = 0
    /\ kDeleted = 0
    /\ kFailed = 0
    /\ kOut = <<>>
    /\ kLog = <<>>


(***************************************************************************)
(* The interactive orphans view (tui/components/orphans): Model.Update.    *)
(* bubbletea hands Update one message at a time; the commands Update       *)
(* returns run on their own and deliver their message later.               *)
(***************************************************************************)
NoFilter == "none"    \* a nil *orphans.OrphanType

\* msg.String() of the keys Update knows, and one it does not
ReviewKeys ==
    {"ctrl+c", "q", "up", "k", "down", "j", " ", "a", "n", "d", "1", "2", "3",
     "4", "v", "r", "y", "Y", "N", "esc", "x"}

\* Go compares strings byte by byte: the characters that occur, in byte order.
CharOrder == <<"/", "a", "b", "d", "e", "f", "i", "l", "o", "t", "x">>
Ord(c) == CHOOSE i \in 1..Len(CharOrder) : CharOrder[i] = c

RECURSIVE LexLess(_, _, _)
LexLess(a, b, i) ==
    IF i > Len(b) THEN FALSE
    ELSE IF i > Len(a) THEN TRUE
    ELSE IF a[i] # b[i] THEN Ord(a[i]) < Ord(b[i])
    ELSE LexLess(a, b, i + 1)

\* The OrphanType values in string order
TypeOrder == <<"closed_pr", "merged_pr", "recent_no_pr", "stale">>
TypeRank(t) == CHOOSE i \in 1..Len(TypeOrder) : TypeOrder[i] = t

\* The less functions of lines 300-316. LastCommitDate.Before: the older
\* commit, so the larger age, comes first.
LessByType(a, b) ==
    IF a.Type # b.Type THEN TypeRank(a.Type) < TypeRank(b.Type)
    ELSE LexLess(Key(a), Key(b), 1)
LessFlat(a, b) == a.AgeHours > b.AgeHours
LessByRepo(a, b) ==
    IF a.Repository # b.Repository THEN LexLess(a.Repository, b.Repository, 1)
    ELSE LexLess(a.BranchName, b.BranchName, 1)

ViewLess(mode, a, b) ==
    IF mode = "by_type" THEN LessByType(a, b)
    ELSE IF mode = "flat" THEN LessFlat(a, b)
    ELSE LessByRepo(a, b)

\* sort.Slice over records no two of which compare equal (the orphans shown
\* differ in key and in commit date), so that the outcome is determined.
SortSlice(seq, mode) ==
    CHOOSE p \in [1..Len(seq) -> {seq[i] : i \in 1..Len(seq)}] :
        \A i, j \in 1..Len(seq) : i < j => ViewLess(mode, p[i], p[j])

RECURSIVE KeepType(_, _)
KeepType(seq, t) ==
    IF seq = <<>> THEN <<>>
    ELSE (IF t # NoFilter /\ Head(seq).Type # t THEN <<>> ELSE <<Head(seq)>>)
         \o KeepType(Tail(seq), t)

\* Model.getFilteredOrphans
getFilteredOrphans ==
    IF tResult = NilResult THEN <<>>
    ELSE SortSlice(KeepType(AllOrphans(tResult.Results), tFilterType), tViewMode)

\* What a scan of the namespace reviewed returns: three orphans in two
\* repositories, which the three view modes show in three different orders.
ReviewRepos ==
    <<[FullName |-> <<"o", "/", "a">>, Archived |-> FALSE, DefaultBranch |-> nMain],
      [FullName |-> <<"o", "/", "b">>, Archived |-> FALSE, DefaultBranch |-> nMain]>>

ReviewResult ==
    LET a == ReviewRepos[1]
        b == ReviewRepos[2]
        rs == <<[Repository |-> a, DefaultBranch |-> a.DefaultBranch, Error |-> NoErr,
                 Orphans |-> <<Orphan(a, Br(nFeat, FALSE, 48), "merged_pr",
                                      <<PR(42, nFeat, "closed", TRUE)>>),
                               Orphan(a, Br(nOld, FALSE, 240), "stale", NoPR)>>],
                [Repository |-> b, DefaultBranch |-> b.DefaultBranch, Error |-> NoErr,
                 Orphans |-> <<Orphan(b, Br(nFix, FALSE, 100), "closed_pr",
                                      <<PR(9, nFix, "closed", FALSE)>>)>>]>>
    IN [IsOrg |-> TRUE, Results |-> rs, TotalRepos |-> 2, TotalOrphans |-> 3]

\* Lines 75-86 and 95-99: a startScan command delivers scanCompleteMsg, with
\* the result or with nil and an error.
ScanComplete ==
    /\ ~tQuit
    /\ tScans > 0
    /\ tScans' = tScans - 1
    /\ tResult' \in {ReviewResult, NilResult}
    /\ UNCHANGED <<cvars, svars, kvars, mvars, tViewMode, tCursor, tSelected,
                   tFilterType, tConfirmDelete, tDeleteTargets, tQuit, tCmds,
                   tIssued>>

RECURSIVE SelectedOf(_)
SelectedOf(seq) ==
    IF seq = <<>> THEN <<>>
    ELSE (IF Key(Head(seq)) \in tSelected THEN <<Head(seq)>> ELSE <<>>)
         \o SelectedOf(Tail(seq))

\* A plausible slip: 'd' deletes at once, without the confirmation dialog.
handleDeleteAtOnce ==
    LET filtered == getFilteredOrphans
        chosen == SelectedOf(filtered)
        targets == IF chosen # <<>> THEN chosen
                   ELSE IF tCursor < Len(filtered) THEN <<filtered[tCursor + 1]>>
                   ELSE <<>>
    IN /\ Len(tIssued) + Len(targets) <= MaxIssued
       /\ tCmds' = tCmds \o targets
       /\ tIssued' = tIssued \o targets
       /\ UNCHANGED <<tResult, tViewMode, tCursor, tSelected, tFilterType,
                      tConfirmDelete, tDeleteTargets, tQuit, tScans>>

\* Model.handleDelete
handleDelete ==
    LET filtered == getFilteredOrphans
        chosen == SelectedOf(filtered)
        targets == IF chosen # <<>> THEN chosen
                   ELSE IF tCursor < Len(filtered) THEN <<filtered[tCursor + 1]>>
                   ELSE <<>>
    IN /\ IF targets = <<>>
          THEN UNCHANGED <<tConfirmDelete, tDeleteTargets>>
          ELSE /\ tConfirmDelete' = TRUE
               /\ tDeleteTargets' = targets
       /\ UNCHANGED <<tResult, tViewMode, tCursor, tSelected, tFilterType, tQuit,
                      tScans, tCmds, tIssued>>

\* Model.executeDelete: one command per target; deleteTargets is left as it
\* is.
executeDelete ==
    /\ Len(tIssued) + Len(tDeleteTargets) <= MaxIssued
    /\ tCmds' = tCmds \o tDeleteTargets
    /\ tIssued' = tIssued \o tDeleteTargets
    /\ tConfirmDelete' = FALSE
    /\ UNCHANGED <<tResult, tViewMode, tCursor, tSelected, tFilterType,
                   tDeleteTargets, tQuit, tScans>>

\* Model.handleConfirmKeys
handleConfirmKeys(k) ==
    IF k \in {"y", "Y"} THEN executeDelete
    ELSE IF k \in {"n", "N", "esc"}
    THEN /\ tConfirmDelete' = FALSE
         /\ tDeleteTargets' = <<>>
         /\ UNCHANGED <<tResult, tViewMode, tCursor, tSelected, tFilterType,
                        tQuit, tScans, tCmds, tIssued>>
    ELSE UNCHANGED tvars

\* Lines 125-196: the keys outside the confirmation dialog.
handleKeys(k) ==
    LET filtered == getFilteredOrphans
    IN IF k \in {"ctrl+c", "q"}
       THEN /\ tQuit' = TRUE
            /\ UNCHANGED <<tResult, tViewMode, tCursor, tSelected, tFilterType,
                           tConfirmDelete, tDeleteTargets, tScans, tCmds, tIssued>>
       ELSE IF k \in {"up", "k"}
       THEN /\ tCursor' = IF tCursor > 0 THEN tCursor - 1 ELSE tCursor
            /\ UNCHANGED <<tResult, tViewMode, tSelected, tFilterType,
                           tConfirmDelete, tDeleteTargets, tQuit, tScans, tCmds,
                           tIssued>>
       ELSE IF k \in {"down", "j"}
       THEN /\ tCursor' = IF tCursor < Len(filtered) - 1 THEN tCursor + 1 ELSE tCursor
            /\ UNCHANGED <<tResult, tViewMode, tSelected, tFilterType,
                           tConfirmDelete, tDeleteTargets, tQuit, tScans, tCmds,
                           tIssued>>
       ELSE IF k = " "
       THEN /\ tSelected' =
                  IF tCursor < Len(filtered)
                  THEN (IF Key(filtered[tCursor + 1]) \in tSelected
                        THEN tSelected \ {Key(filtered[tCursor + 1])}
                        ELSE tSelected \cup {Key(filtered[tCursor + 1])})
                  ELSE tSelected
            /\ UNCHANGED <<tResult, tViewMode, tCursor, tFilterType,
                           tConfirmDelete, tDeleteTargets, tQuit, tScans, tCmds,
                           tIssued>>
       ELSE IF k = "a"
       THEN /\ tSelected' = tSelected \cup {Key(filtered[i]) : i \in 1..Len(filtered)}
            /\ UNCHANGED <<tResult, tViewMode, tCursor, tFilterType,
                           tConfirmDelete, tDeleteTargets, tQuit, tScans, tCmds,
                           tIssued>>
       ELSE IF k = "n"
       THEN /\ tSelected' = {}
            /\ UNCHANGED <<tResult, tViewMode, tCursor, tFilterType,
                           tConfirmDelete, tDeleteTargets, tQuit, tScans, tCmds,
                           tIssued>>
       ELSE IF k = "d" THEN handleDelete
       ELSE IF k \in {"1", "2", "3", "4"}
       THEN /\ tFilterType' = IF k = "1" THEN NoFilter
                              ELSE IF k = "2" THEN "merged_pr"
                              ELSE IF k = "3" THEN "closed_pr"
                              ELSE "stale"
            /\ tCursor' = 0
            /\ UNCHANGED <<tResult, tViewMode, tSelected, tConfirmDelete,
                           tDeleteTargets, tQuit, tScans, tCmds, tIssued>>
       ELSE IF k = "v"
       THEN /\ tViewMode' = IF tViewMode = "by_repo" THEN "by_type"
                            ELSE IF tViewMode = "by_type" THEN "flat"
                            ELSE "by_repo"
            /\ tCursor' = 0
            /\ UNCHANGED <<tResult, tSelected, tFilterType, tConfirmDelete,
                           tDeleteTargets, tQuit, tScans, tCmds, tIssued>>
       ELSE IF k = "r"
       THEN /\ tScans < MaxRescans
            /\ tResult' = NilResult
            /\ tCursor' = 0
            /\ tSelected' = {}
            /\ tScans' = tScans + 1
            /\ UNCHANGED <<tViewMode, tFilterType, tConfirmDelete, tDeleteTargets,
                           tQuit, tCmds, tIssued>>
       ELSE UNCHANGED tvars

\* Update, case tea.KeyMsg (lines 120-197)
KeyMsg(k) ==
    /\ ~tQuit
    /\ IF tConfirmDelete THEN handleConfirmKeys(k) ELSE handleKeys(k)
    /\ UNCHANGED <<cvars, svars, kvars, mvars>>

\* Lines 246-260 and 108-118: the i-th running delete command calls
\* DeleteBranch and delivers its deleteResultMsg, which Update handles. The
\* command touches nothing of the Model, so the call and the handling of its
\* message are one step.
DeleteResult(i, ok) ==
    /\ ~tQuit
    /\ i \in 1..Len(tCmds)
    /\ LET key == Key(tCmds[i])
       IN IF ok
          THEN /\ tSelected' = tSelected \ {key}
               /\ tResult' = IF tResult = NilResult THEN NilResult
                             ELSE removeOrphanFromResult(tResult, key, 1)
          ELSE UNCHANGED <<tSelected, tResult>>
    /\ tCmds' = SubSeq(tCmds, 1, i - 1) \o SubSeq(tCmds, i + 1, Len(tCmds))
    /\ tConfirmDelete' = FALSE
    /\ tDeleteTargets' = <<>>
    /\ UNCHANGED <<cvars, svars, kvars, mvars, tViewMode, tCursor, tFilterType,
                   tQuit, tScans, tIssued>>

\* No view: the state NewModel gives, with nothing running.
ReviewIdle ==
    /\ tResult = NilResult
    /\ tViewMode = "by_repo"
    /\ tCursor = 0
    /\ tSelected = {}
    /\ tFilterType = NoFilter
    /\ tConfirmDelete = FALSE
    /\ tDeleteTargets = <<>>
    /\ tQuit = FALSE
    /\ tScans = 0
    /\ tCmds = <<>>
    /\ tIssued = <<>>


(***************************************************************************)
(* Specifications                                                          *)
(***************************************************************************)
ClassifyIdle ==
    /\ cOptions = ScanOptionsWith(5)
    /\ cRepo = ClassifyRepo
    /\ cBranch = Br(nA, FALSE, 0)
    /\ cPRs = <<>>
    /\ cOut = NotCalled

ScanIdle ==
    /\ cancelled = FALSE
    /\ mainPc = "start"
    /\ repos = <<>>
    /\ nonArchived = <<>>
    /\ result = NilResult
    /\ retErr = FALSE
    /\ spawned = 0
    /\ wpc = [w \in Workers |-> "idle"]
    /\ wres = [w \in Workers |-> NoScan]
    /\ wbranches = [w \in Workers |-> <<>>]
    /\ wprs = [w \in Workers |-> <<>>]
    /\ wnext = [w \in Workers |-> 0]
    /\ semaphore = 0
    /\ wg = 0
    /\ closerPc = "none"
    /\ resultsCh = <<>>
    /\ chClosed = FALSE
    /\ scannedCount = 0
    /\ totalOrphans = 0
    /\ wprogress = [w \in Workers |-> NoProgress]
    /\ delivered = NoProgress
    /\ handed = <<>>
    /\ calls = [w \in {0} \cup Workers |-> <<>>]
    /\ nsCalls = <<>>

\* A scanner built by NewNamespaceScanner with any Concurrency, about to run
\* ScanNamespace (no sink) or ScanNamespaceWithProgress (a sink).
Init ==
    /\ ClassifyIdle
    /\ CleanupIdle
    /\ CacheIdle
    /\ ReviewIdle
    /\ options \in {ScanOptionsWith(c) : c \in -1..MaxConcurrency}
    /\ progressOn \in BOOLEAN
    /\ ScanIdle

Program ==
    \/ MainListFails
    \/ MainList
    \/ MainSpawn
    \/ MainGoCloser
    \/ MainCollect
    \/ MainReturn
    \/ CloserWait
    \/ CloserClose
    \/ \E w \in Workers : Worker(w)

\* What the scanner's environment does: the caller cancels; the review
\* deletes.
Environment ==
    \/ Cancel
    \/ DeleteOk
    \/ DeleteFails

Next == Program \/ Environment

Spec == Init /\ [][Next]_vars

\* Go schedules every goroutine that can take a step; the caller need never
\* cancel.
FairSpec == Spec /\ WF_vars(Program)

(***************************************************************************)
(* The classifier on its own: inputs drawn, then one call                  *)
(***************************************************************************)
InitClassify ==
    /\ options = ScanOptionsWith(5)
    /\ progressOn = FALSE
    /\ ScanIdle
    /\ CleanupIdle
    /\ CacheIdle
    /\ ReviewIdle
    /\ cOptions \in ClassifyOptionsSet
    /\ cRepo \in ClassifyRepos
    /\ cBranch \in ClassifyBranches
    /\ cPRs \in {MkPRs(shapes) : shapes \in SeqsUpTo(PRShapes, MaxPRs)}
    /\ cOut = NotCalled

Classify ==
    /\ cOut = NotCalled
    /\ cOut' = ClassifyBranch(cOptions, cRepo, cBranch, cPRs)
    /\ UNCHANGED <<cOptions, cRepo, cBranch, cPRs, svars, kvars, mvars, tvars>>

NextClassify == Classify

SpecClassify == InitClassify /\ [][NextClassify]_vars

(***************************************************************************)
(* runCleanup on its own: a scan result and the dry-run flag drawn, then   *)
(* the batch                                                               *)
(***************************************************************************)
InitCleanup ==
    /\ ClassifyIdle
    /\ options = ScanOptionsWith(5)
    /\ progressOn = FALSE
    /\ ScanIdle
    /\ CacheIdle
    /\ ReviewIdle
    /\ kResult \in CleanupResults
    /\ kDryRun \in BOOLEAN
    /\ kPc = "start"
    /\ kAll = <<>>
    /\ kNext = 0
    /\ kDeleted = 0
    /\ kFailed = 0
    /\ kOut = <<>>
    /\ kLog = <<>>

NextCleanup ==
    \/ CleanupStart
    \/ CleanupStep
    \/ CleanupTotal

SpecCleanup == InitCleanup /\ [][NextCleanup]_vars

(***************************************************************************)
(* A MemoryManager on its own: any TTL, then any calls as time passes      *)
(***************************************************************************)
InitCache ==
    /\ ClassifyIdle
    /\ options = ScanOptionsWith(5)
    /\ progressOn = FALSE
    /\ ScanIdle
    /\ CleanupIdle
    /\ ReviewIdle
    /\ mTtl \in -1..MaxTtl
    /\ mData = [k \in CacheKeys |-> NoEntry]
    /\ mNow = 0
    /\ mOut = NoOut
    /\ mSetAt = [k \in CacheKeys |-> <<>>]
    /\ mSwept = [k \in CacheKeys |-> FALSE]

NextCache ==
    \/ \E k \in CacheKeys, dtype \in DestTypes : Get(k, dtype)
    \/ \E k \in CacheKeys, val \in GoValues : Set(k, val)
    \/ \E k \in CacheKeys : Delete(k)
    \/ Clear
    \/ CleanExpired
    \/ Stats
    \/ Tick

SpecCache == InitCache /\ [][NextCache]_vars

(***************************************************************************)
(* The orphans view on its own: NewModel and Init's startScan, then any    *)
(* keys and the messages of the commands                                   *)
(***************************************************************************)
InitReview ==
    /\ ClassifyIdle
    /\ options = ScanOptionsWith(5)
    /\ progressOn = FALSE
    /\ ScanIdle
    /\ CleanupIdle
    /\ CacheIdle
    /\ tResult = NilResult
    /\ tViewMode = "by_repo"
    /\ tCursor = 0
    /\ tSelected = {}
    /\ tFilterType = NoFilter
    /\ tConfirmDelete = FALSE
    /\ tDeleteTargets = <<>>
    /\ tQuit = FALSE
    /\ tScans = 1
    /\ tCmds = <<>>
    /\ tIssued = <<>>

NextReview ==
    \/ \E k \in ReviewKeys : KeyMsg(k)
    \/ ScanComplete
    \/ \E i \in 1..MaxIssued, ok \in BOOLEAN : DeleteResult(i, ok)

SpecReview == InitReview /\ [][NextReview]_vars


(***************************************************************************)
(* Properties of the namespace scan                                        *)
(***************************************************************************)
\* Workers that have acquired a semaphore slot and not yet released it.
Holding ==
    {w \in Workers :
        wpc[w] \in {"listBranches", "listPRs", "loop", "progress", "emit", "release"}}

\* Workers inside ScanRepo.
InScanRepo == {w \in Workers : wpc[w] \in {"listBranches", "listPRs", "loop"}}

Returned == mainPc = "returned" /\ result # NilResult

\* The repositories of the listing that are not archived (the listing itself,
\* not the scanner's filtered copy).
TrueNonArchived == {i \in 1..Len(repos) : ~repos[i].Archived}

ResultsFor(repo) ==
    {k \in 1..Len(result.Results) : result.Results[k].Repository = repo}

\* What an undisturbed scan of repository i finds: the orphans among its
\* non-default branches, in listing order.
RECURSIVE FullOrphans(_, _)
FullOrphans(i, k) ==
    IF k > Len(BranchesOf(i)) THEN <<>>
    ELSE LET b == BranchesOf(i)[k]
             repo == Repository(i, FALSE)
             o == ClassifyBranch(options, repo, b, PullsOf(i))
         IN (IF b.Name = repo.DefaultBranch \/ o = NilOrphan THEN <<>> ELSE <<o>>)
            \o FullOrphans(i, k + 1)

FailedCall(w) == \E k \in 1..Len(calls[w]) : ~calls[w][k].ok

RECURSIVE OrphanCount(_)
OrphanCount(srs) ==
    IF srs = <<>> THEN 0 ELSE Len(Head(srs).Orphans) + OrphanCount(Tail(srs))

\* C1: once workers exist, the workers holding a semaphore slot (so also the
\* workers executing ScanRepo) are never more than options.Concurrency.
C1_AtMostConcurrencyScans ==
    spawned > 0 =>
        /\ Cardinality(Holding) <= options.Concurrency
        /\ InScanRepo \subseteq Holding
        /\ semaphore = Cardinality(Holding)

\* The pool is saturated by workers inside ScanRepo while another repository
\* queues.
C1_Witness ==
    /\ options.Concurrency >= 1
    /\ Cardinality(InScanRepo) = options.Concurrency
    /\ \E w \in Workers : wpc[w] = "admit"

\* C2: without cancellation and with 1 <= Concurrency < N, the returned
\* result has exactly one ScanResult per non-archived repository, none for
\* an archived one, and TotalRepos = N.
C2_AllReposScanned ==
    (/\ Returned
     /\ ~cancelled
     /\ 1 <= options.Concurrency
     /\ options.Concurrency < Cardinality(TrueNonArchived))
    => /\ result.TotalRepos = Cardinality(TrueNonArchived)
       /\ Len(result.Results) = Cardinality(TrueNonArchived)
       /\ \A i \in 1..Len(repos) :
            Cardinality(ResultsFor(repos[i])) = IF repos[i].Archived THEN 0 ELSE 1

\* Such a scan has returned, over a listing that also holds an archived
\* repository.
C2_Witness ==
    /\ Returned
    /\ ~cancelled
    /\ 1 <= options.Concurrency
    /\ options.Concurrency < Cardinality(TrueNonArchived)
    /\ \E i \in 1..Len(repos) : repos[i].Archived
    /\ Len(result.Results) >= 2

\* C3 (as claimed, here already for every Concurrency >= 0): once the
\* namespace listing has succeeded the scan eventually returns a result and
\* a nil error.
C3_AlwaysReturns ==
    (mainPc # "start" /\ ~retErr /\ options.Concurrency >= 0)
        ~> (Returned /\ ~retErr)

\* With Concurrency >= 1 it does.
C3_ReturnsWithPositiveConcurrency ==
    (mainPc # "start" /\ ~retErr /\ options.Concurrency >= 1)
        ~> (Returned /\ ~retErr)

\* C4: a repository whose listing failed is in Results, with Error set and no
\* orphans; the scan returns a nil error; and, when nothing is cancelled, every
\* repository whose listings succeeded reports exactly the orphans of its own
\* branches, whatever failed elsewhere.
C4_FailureIsolated ==
    Returned =>
        /\ ~retErr
        /\ \A w \in 1..NumWorkers :
             /\ FailedCall(w) =>
                  \E k \in ResultsFor(RepoOf(w)) :
                      /\ result.Results[k].Error # NoErr
                      /\ result.Results[k].Orphans = <<>>
             /\ (~cancelled /\ ~FailedCall(w)) =>
                  /\ ResultsFor(RepoOf(w)) # {}
                  /\ \A k \in ResultsFor(RepoOf(w)) :
                      /\ result.Results[k].Error = NoErr
                      /\ result.Results[k].Orphans = FullOrphans(RepoIdx(w), 1)

\* One repository failed and a sibling reported its orphans.
C4_Witness ==
    /\ Returned
    /\ ~cancelled
    /\ \E w \in 1..NumWorkers : FailedCall(w)
    /\ \E k \in 1..Len(result.Results) :
         result.Results[k].Error = NoErr /\ result.Results[k].Orphans # <<>>

\* C5 (as claimed): a worker that is at its admission step while the context
\* is cancelled never enters ScanRepo.
C5_CancelledNeverAdmitted ==
    [][\A w \in Workers :
          (wpc[w] = "admit" /\ cancelled) => wpc'[w] # "listBranches"]_vars

\* C6: nothing handed to the result channel is lost: at any moment the
\* results collected so far followed by those still in the channel are the
\* results handed over, in order; the returned result holds all of them and
\* TotalOrphans counts their orphans, cancelled or not.
C6_HandedResultsKept ==
    /\ mainPc \in {"spawn", "collect", "returned"} /\ result # NilResult
         => /\ result.Results \o resultsCh = handed
            /\ result.TotalOrphans = OrphanCount(result.Results)
    /\ Returned => resultsCh = <<>>

\* A cancelled scan has returned a result that ScanRepo cut short after its
\* first orphan, so one handed over after the cancellation.
C6_Witness ==
    /\ Returned
    /\ cancelled
    /\ \E k \in 1..Len(result.Results) :
         /\ result.Results[k].Error = NoErr
         /\ Len(result.Results[k].Orphans) = 1
         /\ Len(FullOrphans(1, 1)) = 2
         /\ result.Results[k].Repository = Repository(1, FALSE)

\* Every ScanResult there is: in a worker's hands, handed over, collected.
AllScanResults ==
    {wres[w] : w \in {v \in Workers : wres[v] # NoScan}}
    \cup {handed[k] : k \in 1..Len(handed)}
    \cup (IF result = NilResult THEN {}
          ELSE {result.Results[k] : k \in 1..Len(result.Results)})

\* C14: no ScanResult ever holds an orphan whose branch is the default branch
\* of the repository scanned.
C14_DefaultBranchNeverReported ==
    \A sr \in AllScanResults :
        /\ sr.DefaultBranch = sr.Repository.DefaultBranch
        /\ \A j \in 1..Len(sr.Orphans) :
              sr.Orphans[j].BranchName # sr.Repository.DefaultBranch

\* A repository has been scanned to the end whose default branch matches no
\* exclude pattern and would by itself be an orphan (stale, with a merged
\* pull request); its other orphans are reported.
C14_Witness ==
    /\ Returned
    /\ \E k \in 1..Len(result.Results) :
         LET sr == result.Results[k]
             default == BranchesOf(1)[1]
         IN /\ sr.Repository = Repository(1, FALSE)
            /\ default.Name = sr.Repository.DefaultBranch
            /\ ~shouldExclude(options, default.Name)
            /\ ClassifyBranch(options, sr.Repository, default, PullsOf(1)) # NilOrphan
            /\ Len(sr.Orphans) = 2

\* C15: in the result a scan returned, and after every removal the review
\* applies to it, TotalOrphans is the sum of len(Orphans) over its
\* ScanResults.
C15_TotalOrphansIsSum ==
    (mainPc \in {"returned", "ui"} /\ result # NilResult)
        => result.TotalOrphans = OrphanCount(result.Results)

\* The review has removed an orphan from the result of a cancelled scan, and
\* orphans are left.
C15_Witness ==
    /\ mainPc = "ui"
    /\ cancelled
    /\ OrphanCount(result.Results) < OrphanCount(handed)
    /\ result.TotalOrphans >= 1

\* C16: a failed namespace listing returns an error and a nil result; no
\* worker was started, no channel goroutine, no call but the listing itself
\* was made and no progress was counted or emitted. The error is returned in
\* no other case.
C16_ListingFailureIsFatal ==
    /\ retErr =>
          /\ mainPc = "returned"
          /\ result = NilResult
          /\ spawned = 0
          /\ closerPc = "none"
          /\ \A w \in Workers : wpc[w] = "idle" /\ calls[w] = <<>>
          /\ calls[0] = <<[op |-> "ListNamespaceRepositories", state |-> "",
                            ok |-> FALSE]>>
          /\ handed = <<>>
          /\ scannedCount = 0
          /\ delivered = NoProgress
    /\ (calls[0] # <<>> /\ ~calls[0][1].ok) => retErr

\* The listing failed for a scanner that has a progress sink.
C16_Witness ==
    /\ retErr
    /\ progressOn
    /\ options.Concurrency >= 1
    /\ mainPc = "returned"

\* C17: when the listing holds no repository that is not archived, the scan
\* has returned as soon as the listing is back: an empty result, a nil error,
\* no worker, no channel goroutine, no per-repository call.
C17_EmptyNamespaceReturnsAtOnce ==
    (mainPc # "start" /\ ~retErr /\ TrueNonArchived = {})
    => /\ mainPc = "returned"
       /\ result # NilResult
       /\ result.TotalRepos = 0
       /\ result.TotalOrphans = 0
       /\ result.Results = <<>>
       /\ spawned = 0
       /\ closerPc = "none"
       /\ \A w \in Workers : wpc[w] = "idle" /\ calls[w] = <<>>
       /\ Len(calls[0]) = 1

\* A namespace whose only repository is archived.
C17_Witness ==
    /\ mainPc = "returned"
    /\ ~retErr
    /\ Len(repos) = 1
    /\ repos[1].Archived
    /\ result.TotalRepos = 0

\* The ScanResult of worker w's repository as the collaborator's answers
\* alone determine it.
Expected(w) ==
    [Repository    |-> RepoOf(w),
     DefaultBranch |-> RepoOf(w).DefaultBranch,
     Orphans       |-> IF FailedCall(w) THEN <<>> ELSE FullOrphans(RepoIdx(w), 1),
     Error         |-> IF ~FailedCall(w) THEN NoErr
                       ELSE IF ~calls[w][1].ok THEN "ListBranches failed"
                       ELSE "ListPullRequests failed"]

\* C18: a worker holding a snapshot can always take the step that drops it;
\* and the result of a scan that is not cancelled is what the collaborator's
\* answers determine, with a sink or without, whatever the sink took.
C18_SinkNeverBlocks ==
    /\ \A w \in Workers : wpc[w] = "emit" => ENABLED EmitDropped(w)
    /\ (Returned /\ ~cancelled /\ options.Concurrency >= 1) =>
          /\ Len(result.Results) = NumWorkers
          /\ \A w \in 1..NumWorkers :
                \E k \in 1..Len(result.Results) : result.Results[k] = Expected(w)
          /\ result.TotalOrphans = OrphanCount(result.Results)

\* A scan with a sink that took nothing has returned both repositories'
\* results.
C18_Witness ==
    /\ Returned
    /\ ~cancelled
    /\ progressOn
    /\ delivered = NoProgress
    /\ scannedCount = 2
    /\ NumWorkers = 2
    /\ result.TotalOrphans = 3

\* The workers whose repository has been counted by the progress section.
Counted ==
    {w \in Workers :
        /\ progressOn
        /\ calls[w] # <<>>
        /\ wpc[w] \in {"emit", "release", "wgdone", "done"}}

\* The orphans of the counted repositories, as handed over.
RECURSIVE CountedOrphansFrom(_)
CountedOrphansFrom(k) ==
    IF k > Len(handed) THEN 0
    ELSE (IF \E w \in Counted : RepoOf(w) = handed[k].Repository
          THEN Len(handed[k].Orphans) ELSE 0) + CountedOrphansFrom(k + 1)

CountedOrphans == CountedOrphansFrom(1)

\* C19: the progress counter moves by one, and only when a snapshot is built;
\* the snapshot built by worker w has Current equal to the new counter and to
\* the number of repositories counted, within 1..Total, Total = TotalRepos,
\* CurrentRepo the full name of w's repository, Orphans the orphans of the
\* counted repositories, and a Current larger than that of every snapshot
\* built before; the sink receives only snapshots that were built.
C19_SnapshotsConsistent ==
    [][/\ scannedCount' \in {scannedCount, scannedCount + 1}
       /\ scannedCount' # scannedCount =>
             \E w \in Workers : wprogress[w] = NoProgress /\ wprogress'[w] # NoProgress
       /\ delivered' # delivered => \E w \in Workers : delivered' = wprogress[w]
       /\ \A w \in Workers :
             (wprogress[w] = NoProgress /\ wprogress'[w] # NoProgress) =>
                LET s == wprogress'[w]
                IN /\ scannedCount' = scannedCount + 1
                   /\ s.Current = scannedCount'
                   /\ s.Current = Cardinality(Counted')
                   /\ Counted' = Counted \cup {w}
                   /\ w \notin Counted
                   /\ 1 <= s.Current
                   /\ s.Current <= s.Total
                   /\ s.Total = result.TotalRepos
                   /\ s.Total = Cardinality(TrueNonArchived)
                   /\ s.CurrentRepo = RepoOf(w).FullName
                   /\ s.Orphans = CountedOrphans'
                   /\ \A v \in Workers \ {w} :
                         wprogress[v] # NoProgress => wprogress[v].Current < s.Current
                   /\ delivered # NoProgress => delivered.Current < s.Current
      ]_vars

\* The second repository has been counted: its snapshot carries the orphans
\* of both.
C19_Witness ==
    \E w \in Workers :
        /\ wprogress[w] # NoProgress
        /\ wprogress[w].Current = 2
        /\ wprogress[w].Total = 2
        /\ wprogress[w].Orphans = 3

ScannerOps == {"ListNamespaceRepositories", "ListBranches", "ListPullRequests"}

\* C20: until the result is under review, every collaborator call is one of
\* the three listings: the caller's goroutine makes the namespace listing,
\* once; a worker makes ListBranches and then ListPullRequests, once each at
\* most. DeleteBranch is called by the review alone.
C20_ScannerNeverDeletes ==
    /\ mainPc # "ui" =>
          \A g \in DOMAIN calls : \A k \in 1..Len(calls[g]) : calls[g][k].op \in ScannerOps
    /\ \A k \in 1..Len(calls[0]) :
          calls[0][k].op = IF k = 1 THEN "ListNamespaceRepositories" ELSE "DeleteBranch"
    /\ \A w \in Workers :
          /\ Len(calls[w]) <= 2
          /\ \A k \in 1..Len(calls[w]) :
                calls[w][k].op = IF k = 1 THEN "ListBranches" ELSE "ListPullRequests"

\* A scan has returned orphans after both listings of two repositories.
C20_Witness ==
    /\ Returned
    /\ NumWorkers = 2
    /\ \A w \in 1..NumWorkers : Len(calls[w]) = 2
    /\ OrphanCount(result.Results) = 3

\* C27: when the scan of a non-empty listing has returned, every worker has
\* finished, no slot is held, the WaitGroup is at zero and the channel is
\* closed and drained; the channel is closed by the closer goroutine's one
\* close step, only after every worker has finished; no worker has panicked
\* on a send.
C27_JoinBeforeAggregate ==
    /\ (mainPc \in {"returned", "ui"} /\ result # NilResult /\ spawned > 0) =>
          /\ \A w \in 1..NumWorkers : wpc[w] = "done"
          /\ semaphore = 0
          /\ wg = 0
          /\ chClosed
          /\ resultsCh = <<>>
    /\ chClosed =>
          /\ spawned = NumWorkers
          /\ \A w \in 1..NumWorkers : wpc[w] = "done"
    /\ chClosed <=> closerPc = "done"
    /\ \A w \in Workers : wpc[w] # "panicked"

\* Two workers that had to take turns have finished and the scan has
\* returned both results.
C27_Witness ==
    /\ Returned
    /\ spawned = 2
    /\ options.Concurrency = 1
    /\ chClosed
    /\ Len(result.Results) = 2
    /\ \A w \in 1..2 : calls[w] # <<>>

IsPrefix(a, b) == Len(a) <= Len(b) /\ SubSeq(b, 1, Len(a)) = a

\* The index in the listing of the repository a ScanResult is about.
IndexOf(sr) == CHOOSE i \in 1..Len(repos) : repos[i] = sr.Repository

\* The ScanResults ScanRepo has produced or is producing.
ScanRepoResults ==
    {wres[w] : w \in {v \in Workers : wres[v] # NoScan}}
    \cup {handed[k] : k \in 1..Len(handed)}

\* C28: a worker that takes its loop step at a non-default branch while the
\* context is cancelled leaves ScanRepo with the orphans it had, classifies
\* nothing and calls nothing; and the Orphans of every ScanResult without
\* Error are a prefix of those of the undisturbed scan of the repository.
C28_CancelStopsBranchLoop ==
    [][/\ \A w \in Workers :
             (/\ wpc[w] = "loop"
              /\ wnext'[w] # wnext[w]
              /\ cancelled
              /\ ~IsDefaultBranch(wres[w].Repository, wbranches[w][wnext[w]]))
             => /\ wpc'[w] # "loop"
                /\ handed' = Append(handed, wres[w])
                /\ calls' = calls
       /\ \A sr \in ScanRepoResults' :
             sr.Error = NoErr => IsPrefix(sr.Orphans, FullOrphans(IndexOf(sr)', 1))
      ]_vars

\* A cancelled scan has handed over a repository's result that holds the
\* first of its two orphans only.
C28_Witness ==
    /\ cancelled
    /\ \E k \in 1..Len(handed) :
          /\ handed[k].Error = NoErr
          /\ handed[k].Repository = Repository(1, FALSE)
          /\ Len(handed[k].Orphans) = 1
          /\ handed[k].Orphans = SubSeq(FullOrphans(1, 1), 1, 1)

\* Worker w has been through ScanRepo.
LeftScanRepo(w) ==
    calls[w] # <<>> /\ wpc[w] \in {"progress", "emit", "release", "wgdone", "done"}

\* C29 (as claimed): every invocation of ScanRepo has made exactly two calls,
\* ListBranches and then ListPullRequests with state all, whatever their
\* outcome.
C29_ExactlyTwoCalls ==
    \A w \in Workers :
        LeftScanRepo(w) =>
            /\ Len(calls[w]) = 2
            /\ calls[w][1].op = "ListBranches"
            /\ calls[w][2].op = "ListPullRequests"
            /\ calls[w][2].state = "all"

\* C29 (amended): every invocation of ScanRepo calls ListBranches once and,
\* only when that call succeeded, ListPullRequests once, with state all:
\* two calls after a successful ListBranches, one after a failed one.
C29_SecondCallOnlyAfterSuccess ==
    \A w \in Workers :
        /\ Len(calls[w]) >= 1 => calls[w][1].op = "ListBranches"
        /\ Len(calls[w]) >= 2 =>
              /\ calls[w][1].ok
              /\ calls[w][2].op = "ListPullRequests"
              /\ calls[w][2].state = "all"
        /\ LeftScanRepo(w) => Len(calls[w]) = IF calls[w][1].ok THEN 2 ELSE 1

\* One invocation has ended after a failed ListBranches, another after both
\* calls.
C29_Witness ==
    \E v, w \in Workers :
        /\ LeftScanRepo(v)
        /\ LeftScanRepo(w)
        /\ ~calls[v][1].ok
        /\ Len(calls[v]) = 1
        /\ Len(calls[w]) = 2


\* The place of a branch name in what ListBranches returns for repository i.
PosIn(i, name) ==
    CHOOSE p \in 1..Len(BranchesOf(i)) : BranchesOf(i)[p].Name = name

\* C32: the Orphans of every ScanResult are, in listing order, records of
\* branches that ListBranches returned for the repository, each a
\* non-default branch with the record ClassifyBranch gave for it, no branch
\* twice; and a scan that was neither cut short nor failed holds every such
\* branch.
C32_OrphansInListingOrder ==
    \A sr \in ScanRepoResults :
        LET i == IndexOf(sr)
            bs == BranchesOf(i)
            n == Len(sr.Orphans)
        IN /\ \A j \in 1..n :
                 \E p \in 1..Len(bs) :
                     /\ bs[p].Name = sr.Orphans[j].BranchName
                     /\ bs[p].Name # sr.Repository.DefaultBranch
                     /\ sr.Orphans[j] =
                            ClassifyBranch(options, sr.Repository, bs[p], PullsOf(i))
           /\ \A j, k \in 1..n :
                 j < k => PosIn(i, sr.Orphans[j].BranchName)
                              < PosIn(i, sr.Orphans[k].BranchName)
           /\ (/\ ~cancelled
               /\ sr.Error = NoErr
               /\ \E k \in 1..Len(handed) : handed[k] = sr)
              => \A p \in 1..Len(bs) :
                    (/\ bs[p].Name # sr.Repository.DefaultBranch
                     /\ ClassifyBranch(options, sr.Repository, bs[p], PullsOf(i))
                            # NilOrphan)
                    => \E j \in 1..n : sr.Orphans[j].BranchName = bs[p].Name

\* A repository with two orphans has been scanned to the end: the second and
\* the third branch of its listing, in that order.
C32_Witness ==
    /\ ~cancelled
    /\ \E k \in 1..Len(handed) :
          /\ handed[k].Error = NoErr
          /\ Len(handed[k].Orphans) = 2
          /\ handed[k].Orphans[1].BranchName = BranchesOf(IndexOf(handed[k]))[2].Name
          /\ handed[k].Orphans[2].BranchName = BranchesOf(IndexOf(handed[k]))[3].Name

\* C33: ListNamespaceRepositories lists the organization first; it lists
\* the user exactly when the organization listing failed with an error that
\* mentions 404; it returns an error exactly when the last listing it made
\* failed; and the result says organization exactly when the organization
\* listing succeeded.
C33_UserListingOnlyAfter404 ==
    mainPc # "start" =>
        LET n == Len(nsCalls)
        IN /\ n \in {1, 2}
           /\ nsCalls[1].op = "ListOrgRepositories"
           /\ n = 2 <=> (nsCalls[1].err # NoMsg /\ Mentions404(nsCalls[1].err))
           /\ n = 2 => nsCalls[2].op = "ListUserRepositories"
           /\ retErr <=> nsCalls[n].err # NoMsg
           /\ retErr => result = NilResult
           /\ ~retErr => (result.IsOrg <=> nsCalls[1].err = NoMsg)

\* The organization listing failed with a 404, the user listing gave one
\* repository, and the scan of it has returned.
C33_Witness ==
    /\ Returned
    /\ ~retErr
    /\ ~result.IsOrg
    /\ Len(nsCalls) = 2
    /\ nsCalls[1].err = m404
    /\ nsCalls[2].err = NoMsg
    /\ Len(result.Results) = 1

\* C35: whenever a worker is inside ScanRepo the result channel has room,
\* so its send can proceed whether or not the caller has started to
\* receive; every worker sends at most one ScanResult; a returned result
\* holds at most TotalRepos entries and no repository twice.
C35_HandOffNeverBlocks ==
    /\ InScanRepo # {} => Len(resultsCh) < ResultsCap
    /\ \A w \in Workers :
          /\ wpc[w] = "listBranches" => ENABLED ListBranchesFails(w)
          /\ wpc[w] = "listPRs" => ENABLED ListPullsFails(w)
    /\ Len(handed) <= NumWorkers
    /\ \A j, k \in 1..Len(handed) :
          j # k => handed[j].Repository # handed[k].Repository
    /\ Returned =>
          /\ Len(result.Results) <= result.TotalRepos
          /\ \A j, k \in 1..Len(result.Results) :
                j # k => result.Results[j].Repository # result.Results[k].Repository

\* Every worker has sent its result while the caller is still starting
\* workers and receives nothing.
C35_Witness ==
    /\ mainPc = "spawn"
    /\ NumWorkers = 2
    /\ Len(resultsCh) = 2
    /\ Len(handed) = 2

\* C36 (as claimed): the snapshots the sink receives arrive with strictly
\* increasing Current and non-decreasing Orphans.
C36_SnapshotsArriveInOrder ==
    [][(delivered # NoProgress /\ delivered' # delivered)
          => /\ delivered'.Current > delivered.Current
             /\ delivered'.Orphans >= delivered.Orphans]_vars

\* C37: cancellation leaves no trace in the output: the scan returns an
\* error only when the repository listing failed; a ScanResult has an Error
\* exactly when ListBranches or ListPullRequests failed for its repository;
\* a worker that left at its admission step has handed over nothing.
C37_CancellationLeavesNoTrace ==
    /\ retErr <=> (calls[0] # <<>> /\ ~calls[0][1].ok)
    /\ Returned => ~retErr
    /\ \A sr \in ScanRepoResults :
          sr.Error # NoErr <=>
              \E w \in 1..NumWorkers : RepoOf(w) = sr.Repository /\ FailedCall(w)
    /\ \A w \in 1..NumWorkers :
          (wpc[w] \in {"wgdone", "done"} /\ calls[w] = <<>>)
              => \A k \in 1..Len(handed) : handed[k].Repository # RepoOf(w)

\* A cancelled scan has returned: one worker left at admission, another was
\* cut short inside ScanRepo, and the one result has no Error.
C37_Witness ==
    /\ Returned
    /\ cancelled
    /\ ~retErr
    /\ NumWorkers = 2
    /\ \E w \in 1..NumWorkers : wpc[w] = "done" /\ calls[w] = <<>>
    /\ Len(result.Results) = 1
    /\ result.Results[1].Error = NoErr
    /\ result.Results[1].Orphans # FullOrphans(IndexOf(result.Results[1]), 1)


(***************************************************************************)
(* Properties of the classifier                                            *)
(***************************************************************************)
Called == cOut # NotCalled

\* The branch name equals or glob-matches an entry of ExcludePatterns.
NameExcluded ==
    \E i \in 1..Len(cOptions.ExcludePatterns) :
        \/ cOptions.ExcludePatterns[i] = cBranch.Name
        \/ Match(cOptions.ExcludePatterns[i], cBranch.Name)

ProtectionSuppresses == cBranch.Protected /\ ~cOptions.IncludeProtected

\* Positions of the pull requests of the branch, by bucket.
MatchingOpen ==
    {i \in 1..Len(cPRs) : cPRs[i].HeadRef = cBranch.Name /\ cPRs[i].State = "open"}
MatchingMerged ==
    {i \in 1..Len(cPRs) : cPRs[i].HeadRef = cBranch.Name /\ cPRs[i].MergedAt # NoPR}
MatchingClosed ==
    {i \in 1..Len(cPRs) : /\ cPRs[i].HeadRef = cBranch.Name
                          /\ cPRs[i].MergedAt = NoPR
                          /\ cPRs[i].State = "closed"}

\* What the signals other than exclusion and protection make of the branch.
OtherSignals ==
    Categorize(cOptions, cRepo, cBranch, ScanPRs(cPRs, cBranch.Name, 1, NoCand))

\* C7: a branch whose name equals or glob-matches an exclude pattern is never
\* classified, whatever its protection, pull requests, age or the options.
C7_ExcludedIsNone ==
    (Called /\ NameExcluded) => cOut = NilOrphan

\* A branch excluded by a glob alone (no pattern equals its name) that every
\* other signal would have made an orphan.
C7_Witness ==
    /\ Called
    /\ NameExcluded
    /\ \A i \in 1..Len(cOptions.ExcludePatterns) :
          cOptions.ExcludePatterns[i] # cBranch.Name
    /\ ~ProtectionSuppresses
    /\ OtherSignals # NilOrphan
    /\ cOut = NilOrphan

\* C8: a branch with an open pull request is never classified, even when
\* merged or closed pull requests have the same head ref.
C8_OpenPRIsNone ==
    (Called /\ MatchingOpen # {}) => cOut = NilOrphan

\* An unexcluded, unsuppressed branch with an open pull request and a merged
\* one listed after it.
C8_Witness ==
    /\ Called
    /\ ~NameExcluded
    /\ ~ProtectionSuppresses
    /\ \E i \in MatchingOpen : \E j \in MatchingMerged : i < j
    /\ cOut = NilOrphan

\* C9: a protected branch is never classified unless IncludeProtected is
\* set; when it is set, the branch is classified exactly as its unprotected
\* twin, and every record carries the branch's protected flag.
C9_ProtectedGate ==
    Called =>
        LET twin == ClassifyBranch(cOptions, cRepo,
                                   [cBranch EXCEPT !.Protected = FALSE], cPRs)
        IN /\ ProtectionSuppresses => cOut = NilOrphan
           /\ cOptions.IncludeProtected =>
                 cOut = IF twin = NilOrphan THEN NilOrphan
                        ELSE [twin EXCEPT !.Protected = cBranch.Protected]
           /\ cOut # NilOrphan => cOut.Protected = cBranch.Protected

\* A protected branch reported because IncludeProtected is set.
C9_Witness ==
    /\ Called
    /\ cBranch.Protected
    /\ cOptions.IncludeProtected
    /\ cOut # NilOrphan
    /\ cOut.Protected

\* C10: with a merged and a closed-unmerged pull request of the branch and
\* no open one, an unexcluded, unsuppressed branch is merged_pr, in either
\* list order.
C10_MergedBeatsClosed ==
    (/\ Called
     /\ ~NameExcluded
     /\ ~ProtectionSuppresses
     /\ MatchingOpen = {}
     /\ MatchingMerged # {}
     /\ MatchingClosed # {})
    => cOut # NilOrphan /\ cOut.Type = "merged_pr"

\* The closed pull request comes last in the list and the branch is still
\* merged_pr.
C10_Witness ==
    /\ Called
    /\ MatchingOpen = {}
    /\ \E i \in MatchingMerged : \E j \in MatchingClosed : i < j
    /\ cOut # NilOrphan
    /\ cOut.Type = "merged_pr"

\* Positions of every pull request of the branch, whatever its state.
MatchingAny == {i \in 1..Len(cPRs) : cPRs[i].HeadRef = cBranch.Name}

Unsuppressed == ~NameExcluded /\ ~ProtectionSuppresses

ReachedThreshold == DaysSince(cBranch.AgeHours) >= cOptions.StaleDaysThreshold

\* C11: an unexcluded, unsuppressed branch with a merged or closed pull
\* request and no open one is an orphan of type merged_pr or closed_pr that
\* carries the number and title of a pull request of its bucket, whatever its
\* age, the threshold and IncludeRecentNoPR.
C11_PRCategoriesNotGated ==
    (/\ Called
     /\ Unsuppressed
     /\ MatchingOpen = {}
     /\ MatchingMerged \cup MatchingClosed # {})
    => /\ cOut # NilOrphan
       /\ cOut.Type = IF MatchingMerged # {} THEN "merged_pr" ELSE "closed_pr"
       /\ \E i \in (IF MatchingMerged # {} THEN MatchingMerged ELSE MatchingClosed) :
             /\ cOut.PRNumber = <<cPRs[i].Number>>
             /\ cOut.PRTitle = <<cPRs[i].Title>>

\* A branch younger than the threshold, IncludeRecentNoPR off, reported for
\* its closed pull request.
C11_Witness ==
    /\ Called
    /\ Unsuppressed
    /\ ~ReachedThreshold
    /\ ~cOptions.IncludeRecentNoPR
    /\ MatchingOpen = {}
    /\ MatchingMerged = {}
    /\ MatchingClosed # {}
    /\ cOut # NilOrphan
    /\ cOut.Type = "closed_pr"

\* C12: an unexcluded, unsuppressed branch without a pull request of its own
\* is stale whenever its whole days of inactivity reach the threshold, the
\* boundary (exactly threshold x 24 hours) included; the record carries no
\* pull request.
C12_StaleAtThreshold ==
    (/\ Called
     /\ Unsuppressed
     /\ MatchingAny = {}
     /\ ReachedThreshold)
    => /\ cOut # NilOrphan
       /\ cOut.Type = "stale"
       /\ cOut.DaysSinceActivity = DaysSince(cBranch.AgeHours)
       /\ cOut.PRNumber = NoPR

\* The boundary: the last commit is exactly threshold x 24 hours old, and
\* pull requests of other branches are in the list.
C12_Witness ==
    /\ Called
    /\ Unsuppressed
    /\ MatchingAny = {}
    /\ cPRs # <<>>
    /\ cBranch.AgeHours = cOptions.StaleDaysThreshold * 24
    /\ cOptions.StaleDaysThreshold = 7
    /\ cOut # NilOrphan
    /\ cOut.Type = "stale"

\* C13: an unexcluded, unsuppressed branch without a pull request of its own
\* and below the threshold is none when IncludeRecentNoPR is off and
\* recent_no_pr when it is on; and recent_no_pr is returned for no branch
\* that has a pull request of its own or has reached the threshold.
C13_RecentNoPRGate ==
    Called =>
        /\ (Unsuppressed /\ MatchingAny = {} /\ ~ReachedThreshold) =>
              IF cOptions.IncludeRecentNoPR
              THEN cOut # NilOrphan /\ cOut.Type = "recent_no_pr"
              ELSE cOut = NilOrphan
        /\ (cOut # NilOrphan /\ cOut.Type = "recent_no_pr") =>
              /\ MatchingAny = {}
              /\ ~ReachedThreshold
              /\ cOptions.IncludeRecentNoPR

\* A branch one hour short of the threshold, reported because
\* IncludeRecentNoPR is on.
C13_Witness ==
    /\ Called
    /\ Unsuppressed
    /\ MatchingAny = {}
    /\ cBranch.AgeHours = 23
    /\ cOptions.StaleDaysThreshold = 1
    /\ cOptions.IncludeRecentNoPR
    /\ cOut # NilOrphan
    /\ cOut.Type = "recent_no_pr"

\* The last position of a non-empty set of list positions.
LastOf(S) == CHOOSE i \in S : \A j \in S : j <= i

\* C23 (as claimed): the DaysSinceActivity of every record is the floor of
\* the elapsed hours / 24, also for a last commit later than the evaluation.
C23_DaysIsFloorOfHours ==
    (Called /\ cOut # NilOrphan) =>
        cOut.DaysSinceActivity = cBranch.AgeHours \div 24

\* C24 (as the command documents it): a branch without a pull request of its
\* own is reported stale only when it has been inactive for more than the
\* threshold.
C24_StaleOnlyBeyondThreshold ==
    (Called /\ MatchingAny = {} /\ cOut # NilOrphan /\ cOut.Type = "stale") =>
        cBranch.AgeHours > cOptions.StaleDaysThreshold * 24

\* C30: when several pull requests of the branch fall into the bucket that
\* decides the category, the record carries the number and title of the one
\* listed last, though the one listed first has the larger number and the
\* later timestamps.
C30_LastInListWins ==
    (/\ Called
     /\ Unsuppressed
     /\ MatchingOpen = {}
     /\ MatchingMerged \cup MatchingClosed # {})
    => LET bucket == IF MatchingMerged # {} THEN MatchingMerged ELSE MatchingClosed
           kept == cPRs[LastOf(bucket)]
       IN /\ cOut # NilOrphan
          /\ cOut.PRNumber = <<kept.Number>>
          /\ cOut.PRTitle = <<kept.Title>>

\* Two closed pull requests of the branch: the record carries the second,
\* whose number is the smaller and whose closing is the earlier.
C30_Witness ==
    /\ Called
    /\ Unsuppressed
    /\ MatchingOpen = {}
    /\ MatchingMerged = {}
    /\ MatchingClosed = {1, 2}
    /\ cPRs[2].Number < cPRs[1].Number
    /\ cPRs[2].ClosedAt[1] < cPRs[1].ClosedAt[1]
    /\ cOut # NilOrphan
    /\ cOut.PRNumber = <<cPRs[2].Number>>


\* C31: a record carries a pull-request number and title exactly when its
\* type is merged_pr or closed_pr, and they are those of the candidate kept
\* for that bucket: the merged one for merged_pr, also when a closed
\* candidate exists, the closed one for closed_pr; stale and recent_no_pr
\* records carry neither.
C31_PRFieldsFollowType ==
    (Called /\ cOut # NilOrphan) =>
        LET withPR == cOut.Type \in {"merged_pr", "closed_pr"}
        IN /\ cOut.Type \in {"merged_pr", "closed_pr", "stale", "recent_no_pr"}
           /\ cOut.PRNumber # NoPR <=> withPR
           /\ cOut.PRTitle # NoPR <=> withPR
           /\ cOut.Type = "merged_pr" <=> MatchingMerged # {}
           /\ cOut.Type = "merged_pr" =>
                 /\ cOut.PRNumber = <<cPRs[LastOf(MatchingMerged)].Number>>
                 /\ cOut.PRTitle = <<cPRs[LastOf(MatchingMerged)].Title>>
           /\ cOut.Type = "closed_pr" =>
                 /\ MatchingClosed # {}
                 /\ cOut.PRNumber = <<cPRs[LastOf(MatchingClosed)].Number>>
                 /\ cOut.PRTitle = <<cPRs[LastOf(MatchingClosed)].Title>>

\* A merged pull request of the branch followed by a closed one: the record
\* is merged_pr with the number and title of the merged one.
C31_Witness ==
    /\ Called
    /\ cOut # NilOrphan
    /\ cOut.Type = "merged_pr"
    /\ Len(cPRs) = 2
    /\ MatchingMerged = {1}
    /\ MatchingClosed = {2}
    /\ cOut.PRNumber = <<cPRs[1].Number>>
    /\ cOut.PRTitle = <<cPRs[1].Title>>
    /\ cPRs[1].Number # cPRs[2].Number

\* C38: of its repository argument ClassifyBranch uses the full name only,
\* and only to copy it into the record: for any other repository (another
\* default branch, owner, name, archived flag) and the same branch, pull
\* requests and options the outcome is none in both cases or the same record
\* up to the Repository field; in particular the default branch is
\* classified like any other branch.
C38_OnlyFullNameOfRepo ==
    Called =>
        \A r \in ClassifyRepos :
            LET o == ClassifyBranch(cOptions, r, cBranch, cPRs)
            IN IF cOut = NilOrphan THEN o = NilOrphan
               ELSE o = [cOut EXCEPT !.Repository = r.FullName]

\* The branch is the default branch of the repository passed, and the
\* classifier reports it.
C38_Witness ==
    /\ Called
    /\ cBranch.Name = cRepo.DefaultBranch
    /\ cOut # NilOrphan
    /\ cOut.Repository = cRepo.FullName
    /\ cOut.BranchName = cRepo.DefaultBranch

\* Other heads and bases a pull request with the same head ref could have.
PRVariants ==
    {[HeadRepo |-> "mallory/widgets", HeadSHA |-> "sha", BaseRef |-> nAA],
     [HeadRepo |-> "acme/widgets", HeadSHA |-> "other", BaseRef |-> nAA],
     [HeadRepo |-> "acme/widgets", HeadSHA |-> "sha", BaseRef |-> nRAB]}

Rehead(prs, f) ==
    [i \in 1..Len(prs) |->
        [prs[i] EXCEPT !.HeadRepo = f[i].HeadRepo,
                       !.HeadSHA = f[i].HeadSHA,
                       !.BaseRef = f[i].BaseRef]]

\* C39: the result does not depend on the head repository, head SHA or base
\* of the pull requests: any list that differs from the one passed in those
\* fields only gives the same result, so that a pull request from a fork
\* with the same head ref counts as the branch's pull request.
C39_HeadRefAlone ==
    Called =>
        \A f \in [1..Len(cPRs) -> PRVariants] :
            ClassifyBranch(cOptions, cRepo, cBranch, Rehead(cPRs, f)) = cOut

\* The only pull request of the branch comes from a fork, and the branch is
\* reported as merged_pr with that pull request's number.
C39_Witness ==
    /\ Called
    /\ cOut # NilOrphan
    /\ cOut.Type = "merged_pr"
    /\ MatchingAny # {}
    /\ \A i \in MatchingAny : cPRs[i].HeadRepo # cPRs[i].BaseRepo
    /\ cOut.PRNumber = <<cPRs[LastOf(MatchingAny)].Number>>


(***************************************************************************)
(* Properties of runCleanup                                                *)
(***************************************************************************)
\* The orphans the loop has dealt with so far.
CleanupDone == IF kPc = "done" THEN Len(kAll) ELSE kNext - 1

\* C21: in a batch that is not a dry run, the DeleteBranch calls made so far
\* are one per orphan dealt with, in AllOrphans order, each for that orphan's
\* owner, repository and branch, whatever the earlier calls returned; each
\* call is followed by a line for its own branch, FAILED exactly when it
\* failed; deleted + failed is the number of calls; and the batch ends only
\* when every orphan has been attempted.
C21_FailureDoesNotStopBatch ==
    (~kDryRun /\ kPc \in {"loop", "done"} /\ kAll # <<>>) =>
        /\ kAll = AllOrphans(kResult.Results)
        /\ Len(kLog) = CleanupDone
        /\ \A i \in 1..Len(kLog) :
              /\ kLog[i].owner \o <<"/">> \o kLog[i].repo = kAll[i].Repository
              /\ kLog[i].branch = kAll[i].BranchName
              /\ kOut[i + 1] = [tag |-> IF kLog[i].ok THEN "DELETED" ELSE "FAILED",
                                repository |-> kAll[i].Repository,
                                branch |-> kAll[i].BranchName]
        /\ kFailed = Cardinality({i \in 1..Len(kLog) : ~kLog[i].ok})
        /\ kDeleted + kFailed = Len(kLog)
        /\ kPc = "done" =>
              kOut[Len(kOut)] = [tag |-> "Total", deleted |-> kDeleted,
                                 failed |-> kFailed]

\* A batch over two repositories has ended; its first deletion failed and
\* later ones succeeded.
C21_Witness ==
    /\ ~kDryRun
    /\ kPc = "done"
    /\ Len(kResult.Results) = 2
    /\ Len(kLog) >= 3
    /\ ~kLog[1].ok
    /\ kLog[2].ok
    /\ kLog[Len(kLog)].ok

\* C22: in a dry run no DeleteBranch call is made; every orphan is listed as
\* a preview and counted in the total, none as failed.
C22_DryRunNeverDeletes ==
    kDryRun =>
        /\ kLog = <<>>
        /\ kFailed = 0
        /\ kPc \in {"loop", "done"} /\ kAll # <<>> =>
              /\ kDeleted = CleanupDone
              /\ \A i \in 1..CleanupDone :
                    kOut[i + 1] = [tag |-> "DRY RUN",
                                   repository |-> kAll[i].Repository,
                                   branch |-> kAll[i].BranchName]

\* A dry run over three orphans or more has ended.
C22_Witness ==
    /\ kDryRun
    /\ kPc = "done"
    /\ Len(AllOrphans(kResult.Results)) >= 3
    /\ kDeleted = Len(AllOrphans(kResult.Results))
    /\ kLog = <<>>


(***************************************************************************)
(* Properties of the MemoryManager                                         *)
(***************************************************************************)
\* The key's most recent Set is no more than the TTL ago, and neither
\* Delete(k) nor Clear came after it.
Live(k) == mSetAt[k] # <<>> /\ mNow - mSetAt[k][1] <= mTtl

\* The value set last under the key is of the destination's type.
Fits(k, dtype) == mSetAt[k][2].type = dtype

\* The entry is in the store: set, and neither deleted, cleared nor swept.
Stored(k) == mSetAt[k] # <<>> /\ ~mSwept[k]

\* C25 (as claimed): Get reports found exactly when the key is live, and
\* otherwise not found with a nil error.
C25_GetFoundIffLive ==
    mOut.op = "Get" =>
        /\ mOut.found <=> Live(mOut.key)
        /\ ~mOut.found => ~mOut.err

\* C25 (amended): Get reports found exactly when the key is live and its
\* value unmarshals into the destination; a live key whose value does not
\* unmarshal gives not found with an error; in every other case Get reports
\* not found with a nil error.
C25_GetFoundIffLiveAndFits ==
    mOut.op = "Get" =>
        /\ mOut.found <=> (Live(mOut.key) /\ Fits(mOut.key, mOut.dest))
        /\ mOut.err <=> (Live(mOut.key) /\ ~Fits(mOut.key, mOut.dest))

\* A Get at the very instant of expiry finds the value, after a
\* CleanExpired at that instant.
C25_Witness ==
    /\ mOut.op = "Get"
    /\ mOut.found
    /\ mTtl = 1
    /\ mNow - mSetAt[mOut.key][1] = mTtl
    /\ \E k \in CacheKeys : mSwept[k]

\* C26: an entry is in the store exactly when it was set and not since
\* deleted, cleared or swept while expired, so that neither time nor a sweep
\* before its expiry removes it, and it keeps the expiry its Set gave it;
\* Stats returns the number of entries in the store as total and the number
\* of those past their expiry as expired.
C26_StatsCountsStored ==
    /\ \A k \in CacheKeys :
          /\ mData[k] # NoEntry <=> Stored(k)
          /\ Stored(k) => mData[k].expiresAt = mSetAt[k][1] + mTtl
    /\ mOut.op = "Stats" =>
          /\ mOut.total = Cardinality({k \in CacheKeys : Stored(k)})
          /\ mOut.expired = Cardinality({k \in CacheKeys : Stored(k) /\ Outlived(k)})
          /\ ~mOut.err

\* Stats counts two stored entries, one past its expiry and one not.
C26_Witness ==
    /\ mOut.op = "Stats"
    /\ mOut.total = 2
    /\ mOut.expired = 1
    /\ mTtl = 1


(***************************************************************************)
(* Properties of the orphans view                                          *)
(***************************************************************************)
\* The selected orphans of the current filter, in the order shown, or the
\* orphan under the cursor when none of them is selected.
ShownSelected ==
    LET shown == getFilteredOrphans
        picks == {i \in 1..Len(shown) : Key(shown[i]) \in tSelected}
    IN IF picks # {}
       THEN [n \in 1..Cardinality(picks) |->
                shown[CHOOSE i \in picks :
                          Cardinality({j \in picks : j <= i}) = n]]
       ELSE IF tCursor < Len(shown) THEN <<shown[tCursor + 1]>>
       ELSE <<>>

\* C34: a step issues delete commands only when the confirmation dialog is
\* open and the step is the one Update takes on 'y' or 'Y', and the commands
\* are for the dialog's targets; the dialog opens only by the step taken on
\* 'd', with the selected orphans of the current filter, or the orphan under
\* the cursor, as its targets, and while it stays open the targets stay as
\* they are; the step taken on 'n', 'N' or 'esc' in the dialog closes it,
\* clears the targets and issues nothing.
C34_DeleteOnlyOnConfirm ==
    [][/\ (tIssued' # tIssued \/ Len(tCmds') > Len(tCmds)) =>
             /\ tConfirmDelete
             /\ KeyMsg("y") \/ KeyMsg("Y")
             /\ tDeleteTargets # <<>>
             /\ tIssued' = tIssued \o tDeleteTargets
             /\ tCmds' = tCmds \o tDeleteTargets
             /\ ~tConfirmDelete'
       /\ (~tConfirmDelete /\ tConfirmDelete') =>
             /\ KeyMsg("d")
             /\ ShownSelected # <<>>
             /\ tDeleteTargets' = ShownSelected
       /\ (tConfirmDelete /\ tConfirmDelete') => tDeleteTargets' = tDeleteTargets
       /\ \A k \in {"n", "N", "esc"} :
             (tConfirmDelete /\ KeyMsg(k)) =>
                 /\ ~tConfirmDelete'
                 /\ tDeleteTargets' = <<>>
                 /\ tIssued' = tIssued
                 /\ tCmds' = tCmds
      ]_vars

\* In the flat view two orphans were selected, 'd' opened the dialog and 'y'
\* confirmed it: the two delete commands are running.
C34_Witness ==
    /\ Len(tIssued) = 2
    /\ tCmds = tIssued
    /\ tDeleteTargets = tIssued
    /\ ~tConfirmDelete
    /\ tIssued[1] # tIssued[2]
    /\ {Key(tIssued[1]), Key(tIssued[2])} \subseteq tSelected
    /\ tViewMode = "flat"

====
